---------------------------- MODULE Spec2Model ----------------------------
(***************************************************************************)
(* Model of the remaw mutating admission webhook (src/webhook.go).         *)
(*                                                                         *)
(* One admission request is in flight at a time: serve holds no state      *)
(* shared between requests, so concurrent invocations do not interact.     *)
(* The handler is modelled in the steps of its control flow                *)
(*   Received -> BodyValidated -> Decoded -> PodDecoded -> Evaluated       *)
(*            -> Encoded -> Responded                                      *)
(* and the API server (the caller) may resubmit the object afterwards.     *)
(*                                                                         *)
(* Strings.  A Go string is modelled as a sequence of symbols.  Where the   *)
(* code compares letters without regard to case (annotation values, the    *)
(* member names json.Unmarshal matches to struct fields) a symbol is one    *)
(* character, a character outside ASCII being named by its code point      *)
(* ("U+0130").  In an annotation key a symbol is the separator "/", an RFC  *)
(* 6901 escape ("~0", "~1") or a maximal run of other characters.          *)
(* Concatenation is \o.                                                    *)
(***************************************************************************)
EXTENDS Naturals, Sequences, FiniteSets, TLC

(***************************************************************************)
(* Bounds of the model.                                                    *)
(***************************************************************************)
MaxResubmits == 2        \* resubmissions of one object by the API server
MaxContainers == 1       \* containers of the submitted Pod: 0..MaxContainers

(***************************************************************************)
(* Program constants.                                                      *)
(***************************************************************************)
statusKey == <<"redis-exporter-sidecar.nais.io", "/", "status">>
injectKey == <<"redis-exporter-sidecar.nais.io", "/", "inject">>
prometheusScrapeKey == <<"prometheus.io", "/", "scrape">>
prometheusPortKey == <<"prometheus.io", "/", "port">>
prometheusPathKey == <<"prometheus.io", "/", "path">>
exporterDockerImage == <<"oliver006", "/", "redis_exporter:v0.33.0-alpine">>
ContainerPort == 9121
StatusOK == 200
StatusBadRequest == 400
StatusUnsupportedMediaType == 415
StatusInternalServerError == 500

\* A key no code of the webhook names (an annotation of the Pod's owner).
teamKey == <<"team">>

(***************************************************************************)
(* Annotation values, one symbol per character.                            *)
(***************************************************************************)
sEmpty == <<>>
sInjected == <<"i", "n", "j", "e", "c", "t", "e", "d">>
sInjectedCap == <<"I", "n", "j", "e", "c", "t", "e", "d">>
sInjectedUpper == <<"I", "N", "J", "E", "C", "T", "E", "D">>
sInjectedDotted == <<"U+0130", "n", "j", "e", "c", "t", "e", "d">>
sY == <<"y">>
sYes == <<"y", "e", "s">>
sYesUpper == <<"Y", "E", "S">>
sTrue == <<"t", "r", "u", "e">>
sTrueCap == <<"T", "r", "u", "e">>
sOn == <<"o", "n">>
sFalse == <<"f", "a", "l", "s", "e">>
sNo == <<"n", "o">>
sPayments == <<"p", "a", "y", "m", "e", "n", "t", "s">>
sMetricsPath == <<"/", "m", "e", "t", "r", "i", "c", "s">>

\* unicode.ToLower on the ASCII capitals.
UpperToLower ==
  [A |-> "a", B |-> "b", C |-> "c", D |-> "d", E |-> "e", F |-> "f", G |-> "g",
   H |-> "h", I |-> "i", J |-> "j", K |-> "k", L |-> "l", M |-> "m", N |-> "n",
   O |-> "o", P |-> "p", Q |-> "q", R |-> "r", S |-> "s", T |-> "t", U |-> "u",
   V |-> "v", W |-> "w", X |-> "x", Y |-> "y", Z |-> "z"]

\* unicode.ToLower on the characters outside ASCII that it changes, as pairs
\* of a character and its lower case: the simple lower-case mapping of the
\* Unicode character database.  Two of them lower-case to an ASCII letter,
\* the dotted capital I (U+0130) and the Kelvin sign (U+212A).
NonASCIIToLower ==
  {
   <<"U+00C0", "U+00E0">>, <<"U+00C1", "U+00E1">>, <<"U+00C2", "U+00E2">>, <<"U+00C3", "U+00E3">>,
   <<"U+00C4", "U+00E4">>, <<"U+00C5", "U+00E5">>, <<"U+00C6", "U+00E6">>, <<"U+00C7", "U+00E7">>,
   <<"U+00C8", "U+00E8">>, <<"U+00C9", "U+00E9">>, <<"U+00CA", "U+00EA">>, <<"U+00CB", "U+00EB">>,
   <<"U+00CC", "U+00EC">>, <<"U+00CD", "U+00ED">>, <<"U+00CE", "U+00EE">>, <<"U+00CF", "U+00EF">>,
   <<"U+00D0", "U+00F0">>, <<"U+00D1", "U+00F1">>, <<"U+00D2", "U+00F2">>, <<"U+00D3", "U+00F3">>,
   <<"U+00D4", "U+00F4">>, <<"U+00D5", "U+00F5">>, <<"U+00D6", "U+00F6">>, <<"U+00D8", "U+00F8">>,
   <<"U+00D9", "U+00F9">>, <<"U+00DA", "U+00FA">>, <<"U+00DB", "U+00FB">>, <<"U+00DC", "U+00FC">>,
   <<"U+00DD", "U+00FD">>, <<"U+00DE", "U+00FE">>, <<"U+0100", "U+0101">>, <<"U+0102", "U+0103">>,
   <<"U+0104", "U+0105">>, <<"U+0106", "U+0107">>, <<"U+0108", "U+0109">>, <<"U+010A", "U+010B">>,
   <<"U+010C", "U+010D">>, <<"U+010E", "U+010F">>, <<"U+0110", "U+0111">>, <<"U+0112", "U+0113">>,
   <<"U+0114", "U+0115">>, <<"U+0116", "U+0117">>, <<"U+0118", "U+0119">>, <<"U+011A", "U+011B">>,
   <<"U+011C", "U+011D">>, <<"U+011E", "U+011F">>, <<"U+0120", "U+0121">>, <<"U+0122", "U+0123">>,
   <<"U+0124", "U+0125">>, <<"U+0126", "U+0127">>, <<"U+0128", "U+0129">>, <<"U+012A", "U+012B">>,
   <<"U+012C", "U+012D">>, <<"U+012E", "U+012F">>, <<"U+0130", "i">>, <<"U+0132", "U+0133">>,
   <<"U+0134", "U+0135">>, <<"U+0136", "U+0137">>, <<"U+0139", "U+013A">>, <<"U+013B", "U+013C">>,
   <<"U+013D", "U+013E">>, <<"U+013F", "U+0140">>, <<"U+0141", "U+0142">>, <<"U+0143", "U+0144">>,
   <<"U+0145", "U+0146">>, <<"U+0147", "U+0148">>, <<"U+014A", "U+014B">>, <<"U+014C", "U+014D">>,
   <<"U+014E", "U+014F">>, <<"U+0150", "U+0151">>, <<"U+0152", "U+0153">>, <<"U+0154", "U+0155">>,
   <<"U+0156", "U+0157">>, <<"U+0158", "U+0159">>, <<"U+015A", "U+015B">>, <<"U+015C", "U+015D">>,
   <<"U+015E", "U+015F">>, <<"U+0160", "U+0161">>, <<"U+0162", "U+0163">>, <<"U+0164", "U+0165">>,
   <<"U+0166", "U+0167">>, <<"U+0168", "U+0169">>, <<"U+016A", "U+016B">>, <<"U+016C", "U+016D">>,
   <<"U+016E", "U+016F">>, <<"U+0170", "U+0171">>, <<"U+0172", "U+0173">>, <<"U+0174", "U+0175">>,
   <<"U+0176", "U+0177">>, <<"U+0178", "U+00FF">>, <<"U+0179", "U+017A">>, <<"U+017B", "U+017C">>,
   <<"U+017D", "U+017E">>, <<"U+0181", "U+0253">>, <<"U+0182", "U+0183">>, <<"U+0184", "U+0185">>,
   <<"U+0186", "U+0254">>, <<"U+0187", "U+0188">>, <<"U+0189", "U+0256">>, <<"U+018A", "U+0257">>,
   <<"U+018B", "U+018C">>, <<"U+018E", "U+01DD">>, <<"U+018F", "U+0259">>, <<"U+0190", "U+025B">>,
   <<"U+0191", "U+0192">>, <<"U+0193", "U+0260">>, <<"U+0194", "U+0263">>, <<"U+0196", "U+0269">>,
   <<"U+0197", "U+0268">>, <<"U+0198", "U+0199">>, <<"U+019C", "U+026F">>, <<"U+019D", "U+0272">>,
   <<"U+019F", "U+0275">>, <<"U+01A0", "U+01A1">>, <<"U+01A2", "U+01A3">>, <<"U+01A4", "U+01A5">>,
   <<"U+01A6", "U+0280">>, <<"U+01A7", "U+01A8">>, <<"U+01A9", "U+0283">>, <<"U+01AC", "U+01AD">>,
   <<"U+01AE", "U+0288">>, <<"U+01AF", "U+01B0">>, <<"U+01B1", "U+028A">>, <<"U+01B2", "U+028B">>,
   <<"U+01B3", "U+01B4">>, <<"U+01B5", "U+01B6">>, <<"U+01B7", "U+0292">>, <<"U+01B8", "U+01B9">>,
   <<"U+01BC", "U+01BD">>, <<"U+01C4", "U+01C6">>, <<"U+01C5", "U+01C6">>, <<"U+01C7", "U+01C9">>,
   <<"U+01C8", "U+01C9">>, <<"U+01CA", "U+01CC">>, <<"U+01CB", "U+01CC">>, <<"U+01CD", "U+01CE">>,
   <<"U+01CF", "U+01D0">>, <<"U+01D1", "U+01D2">>, <<"U+01D3", "U+01D4">>, <<"U+01D5", "U+01D6">>,
   <<"U+01D7", "U+01D8">>, <<"U+01D9", "U+01DA">>, <<"U+01DB", "U+01DC">>, <<"U+01DE", "U+01DF">>,
   <<"U+01E0", "U+01E1">>, <<"U+01E2", "U+01E3">>, <<"U+01E4", "U+01E5">>, <<"U+01E6", "U+01E7">>,
   <<"U+01E8", "U+01E9">>, <<"U+01EA", "U+01EB">>, <<"U+01EC", "U+01ED">>, <<"U+01EE", "U+01EF">>,
   <<"U+01F1", "U+01F3">>, <<"U+01F2", "U+01F3">>, <<"U+01F4", "U+01F5">>, <<"U+01F6", "U+0195">>,
   <<"U+01F7", "U+01BF">>, <<"U+01F8", "U+01F9">>, <<"U+01FA", "U+01FB">>, <<"U+01FC", "U+01FD">>,
   <<"U+01FE", "U+01FF">>, <<"U+0200", "U+0201">>, <<"U+0202", "U+0203">>, <<"U+0204", "U+0205">>,
   <<"U+0206", "U+0207">>, <<"U+0208", "U+0209">>, <<"U+020A", "U+020B">>, <<"U+020C", "U+020D">>,
   <<"U+020E", "U+020F">>, <<"U+0210", "U+0211">>, <<"U+0212", "U+0213">>, <<"U+0214", "U+0215">>,
   <<"U+0216", "U+0217">>, <<"U+0218", "U+0219">>, <<"U+021A", "U+021B">>, <<"U+021C", "U+021D">>,
   <<"U+021E", "U+021F">>, <<"U+0220", "U+019E">>, <<"U+0222", "U+0223">>, <<"U+0224", "U+0225">>,
   <<"U+0226", "U+0227">>, <<"U+0228", "U+0229">>, <<"U+022A", "U+022B">>, <<"U+022C", "U+022D">>,
   <<"U+022E", "U+022F">>, <<"U+0230", "U+0231">>, <<"U+0232", "U+0233">>, <<"U+023A", "U+2C65">>,
   <<"U+023B", "U+023C">>, <<"U+023D", "U+019A">>, <<"U+023E", "U+2C66">>, <<"U+0241", "U+0242">>,
   <<"U+0243", "U+0180">>, <<"U+0244", "U+0289">>, <<"U+0245", "U+028C">>, <<"U+0246", "U+0247">>,
   <<"U+0248", "U+0249">>, <<"U+024A", "U+024B">>, <<"U+024C", "U+024D">>, <<"U+024E", "U+024F">>,
   <<"U+0370", "U+0371">>, <<"U+0372", "U+0373">>, <<"U+0376", "U+0377">>, <<"U+037F", "U+03F3">>,
   <<"U+0386", "U+03AC">>, <<"U+0388", "U+03AD">>, <<"U+0389", "U+03AE">>, <<"U+038A", "U+03AF">>,
   <<"U+038C", "U+03CC">>, <<"U+038E", "U+03CD">>, <<"U+038F", "U+03CE">>, <<"U+0391", "U+03B1">>,
   <<"U+0392", "U+03B2">>, <<"U+0393", "U+03B3">>, <<"U+0394", "U+03B4">>, <<"U+0395", "U+03B5">>,
   <<"U+0396", "U+03B6">>, <<"U+0397", "U+03B7">>, <<"U+0398", "U+03B8">>, <<"U+0399", "U+03B9">>,
   <<"U+039A", "U+03BA">>, <<"U+039B", "U+03BB">>, <<"U+039C", "U+03BC">>, <<"U+039D", "U+03BD">>,
   <<"U+039E", "U+03BE">>, <<"U+039F", "U+03BF">>, <<"U+03A0", "U+03C0">>, <<"U+03A1", "U+03C1">>,
   <<"U+03A3", "U+03C3">>, <<"U+03A4", "U+03C4">>, <<"U+03A5", "U+03C5">>, <<"U+03A6", "U+03C6">>,
   <<"U+03A7", "U+03C7">>, <<"U+03A8", "U+03C8">>, <<"U+03A9", "U+03C9">>, <<"U+03AA", "U+03CA">>,
   <<"U+03AB", "U+03CB">>, <<"U+03CF", "U+03D7">>, <<"U+03D8", "U+03D9">>, <<"U+03DA", "U+03DB">>,
   <<"U+03DC", "U+03DD">>, <<"U+03DE", "U+03DF">>, <<"U+03E0", "U+03E1">>, <<"U+03E2", "U+03E3">>,
   <<"U+03E4", "U+03E5">>, <<"U+03E6", "U+03E7">>, <<"U+03E8", "U+03E9">>, <<"U+03EA", "U+03EB">>,
   <<"U+03EC", "U+03ED">>, <<"U+03EE", "U+03EF">>, <<"U+03F4", "U+03B8">>, <<"U+03F7", "U+03F8">>,
   <<"U+03F9", "U+03F2">>, <<"U+03FA", "U+03FB">>, <<"U+03FD", "U+037B">>, <<"U+03FE", "U+037C">>,
   <<"U+03FF", "U+037D">>, <<"U+0400", "U+0450">>, <<"U+0401", "U+0451">>, <<"U+0402", "U+0452">>,
   <<"U+0403", "U+0453">>, <<"U+0404", "U+0454">>, <<"U+0405", "U+0455">>, <<"U+0406", "U+0456">>,
   <<"U+0407", "U+0457">>, <<"U+0408", "U+0458">>, <<"U+0409", "U+0459">>, <<"U+040A", "U+045A">>,
   <<"U+040B", "U+045B">>, <<"U+040C", "U+045C">>, <<"U+040D", "U+045D">>, <<"U+040E", "U+045E">>,
   <<"U+040F", "U+045F">>, <<"U+0410", "U+0430">>, <<"U+0411", "U+0431">>, <<"U+0412", "U+0432">>,
   <<"U+0413", "U+0433">>, <<"U+0414", "U+0434">>, <<"U+0415", "U+0435">>, <<"U+0416", "U+0436">>,
   <<"U+0417", "U+0437">>, <<"U+0418", "U+0438">>, <<"U+0419", "U+0439">>, <<"U+041A", "U+043A">>,
   <<"U+041B", "U+043B">>, <<"U+041C", "U+043C">>, <<"U+041D", "U+043D">>, <<"U+041E", "U+043E">>,
   <<"U+041F", "U+043F">>, <<"U+0420", "U+0440">>, <<"U+0421", "U+0441">>, <<"U+0422", "U+0442">>,
   <<"U+0423", "U+0443">>, <<"U+0424", "U+0444">>, <<"U+0425", "U+0445">>, <<"U+0426", "U+0446">>,
   <<"U+0427", "U+0447">>, <<"U+0428", "U+0448">>, <<"U+0429", "U+0449">>, <<"U+042A", "U+044A">>,
   <<"U+042B", "U+044B">>, <<"U+042C", "U+044C">>, <<"U+042D", "U+044D">>, <<"U+042E", "U+044E">>,
   <<"U+042F", "U+044F">>, <<"U+0460", "U+0461">>, <<"U+0462", "U+0463">>, <<"U+0464", "U+0465">>,
   <<"U+0466", "U+0467">>, <<"U+0468", "U+0469">>, <<"U+046A", "U+046B">>, <<"U+046C", "U+046D">>,
   <<"U+046E", "U+046F">>, <<"U+0470", "U+0471">>, <<"U+0472", "U+0473">>, <<"U+0474", "U+0475">>,
   <<"U+0476", "U+0477">>, <<"U+0478", "U+0479">>, <<"U+047A", "U+047B">>, <<"U+047C", "U+047D">>,
   <<"U+047E", "U+047F">>, <<"U+0480", "U+0481">>, <<"U+048A", "U+048B">>, <<"U+048C", "U+048D">>,
   <<"U+048E", "U+048F">>, <<"U+0490", "U+0491">>, <<"U+0492", "U+0493">>, <<"U+0494", "U+0495">>,
   <<"U+0496", "U+0497">>, <<"U+0498", "U+0499">>, <<"U+049A", "U+049B">>, <<"U+049C", "U+049D">>,
   <<"U+049E", "U+049F">>, <<"U+04A0", "U+04A1">>, <<"U+04A2", "U+04A3">>, <<"U+04A4", "U+04A5">>,
   <<"U+04A6", "U+04A7">>, <<"U+04A8", "U+04A9">>, <<"U+04AA", "U+04AB">>, <<"U+04AC", "U+04AD">>,
   <<"U+04AE", "U+04AF">>, <<"U+04B0", "U+04B1">>, <<"U+04B2", "U+04B3">>, <<"U+04B4", "U+04B5">>,
   <<"U+04B6", "U+04B7">>, <<"U+04B8", "U+04B9">>, <<"U+04BA", "U+04BB">>, <<"U+04BC", "U+04BD">>,
   <<"U+04BE", "U+04BF">>, <<"U+04C0", "U+04CF">>, <<"U+04C1", "U+04C2">>, <<"U+04C3", "U+04C4">>,
   <<"U+04C5", "U+04C6">>, <<"U+04C7", "U+04C8">>, <<"U+04C9", "U+04CA">>, <<"U+04CB", "U+04CC">>,
   <<"U+04CD", "U+04CE">>, <<"U+04D0", "U+04D1">>, <<"U+04D2", "U+04D3">>, <<"U+04D4", "U+04D5">>,
   <<"U+04D6", "U+04D7">>, <<"U+04D8", "U+04D9">>, <<"U+04DA", "U+04DB">>, <<"U+04DC", "U+04DD">>,
   <<"U+04DE", "U+04DF">>, <<"U+04E0", "U+04E1">>, <<"U+04E2", "U+04E3">>, <<"U+04E4", "U+04E5">>,
   <<"U+04E6", "U+04E7">>, <<"U+04E8", "U+04E9">>, <<"U+04EA", "U+04EB">>, <<"U+04EC", "U+04ED">>,
   <<"U+04EE", "U+04EF">>, <<"U+04F0", "U+04F1">>, <<"U+04F2", "U+04F3">>, <<"U+04F4", "U+04F5">>,
   <<"U+04F6", "U+04F7">>, <<"U+04F8", "U+04F9">>, <<"U+04FA", "U+04FB">>, <<"U+04FC", "U+04FD">>,
   <<"U+04FE", "U+04FF">>, <<"U+0500", "U+0501">>, <<"U+0502", "U+0503">>, <<"U+0504", "U+0505">>,
   <<"U+0506", "U+0507">>, <<"U+0508", "U+0509">>, <<"U+050A", "U+050B">>, <<"U+050C", "U+050D">>,
   <<"U+050E", "U+050F">>, <<"U+0510", "U+0511">>, <<"U+0512", "U+0513">>, <<"U+0514", "U+0515">>,
   <<"U+0516", "U+0517">>, <<"U+0518", "U+0519">>, <<"U+051A", "U+051B">>, <<"U+051C", "U+051D">>,
   <<"U+051E", "U+051F">>, <<"U+0520", "U+0521">>, <<"U+0522", "U+0523">>, <<"U+0524", "U+0525">>,
   <<"U+0526", "U+0527">>, <<"U+0528", "U+0529">>, <<"U+052A", "U+052B">>, <<"U+052C", "U+052D">>,
   <<"U+052E", "U+052F">>, <<"U+0531", "U+0561">>, <<"U+0532", "U+0562">>, <<"U+0533", "U+0563">>,
   <<"U+0534", "U+0564">>, <<"U+0535", "U+0565">>, <<"U+0536", "U+0566">>, <<"U+0537", "U+0567">>,
   <<"U+0538", "U+0568">>, <<"U+0539", "U+0569">>, <<"U+053A", "U+056A">>, <<"U+053B", "U+056B">>,
   <<"U+053C", "U+056C">>, <<"U+053D", "U+056D">>, <<"U+053E", "U+056E">>, <<"U+053F", "U+056F">>,
   <<"U+0540", "U+0570">>, <<"U+0541", "U+0571">>, <<"U+0542", "U+0572">>, <<"U+0543", "U+0573">>,
   <<"U+0544", "U+0574">>, <<"U+0545", "U+0575">>, <<"U+0546", "U+0576">>, <<"U+0547", "U+0577">>,
   <<"U+0548", "U+0578">>, <<"U+0549", "U+0579">>, <<"U+054A", "U+057A">>, <<"U+054B", "U+057B">>,
   <<"U+054C", "U+057C">>, <<"U+054D", "U+057D">>, <<"U+054E", "U+057E">>, <<"U+054F", "U+057F">>,
   <<"U+0550", "U+0580">>, <<"U+0551", "U+0581">>, <<"U+0552", "U+0582">>, <<"U+0553", "U+0583">>,
   <<"U+0554", "U+0584">>, <<"U+0555", "U+0585">>, <<"U+0556", "U+0586">>, <<"U+10A0", "U+2D00">>,
   <<"U+10A1", "U+2D01">>, <<"U+10A2", "U+2D02">>, <<"U+10A3", "U+2D03">>, <<"U+10A4", "U+2D04">>,
   <<"U+10A5", "U+2D05">>, <<"U+10A6", "U+2D06">>, <<"U+10A7", "U+2D07">>, <<"U+10A8", "U+2D08">>,
   <<"U+10A9", "U+2D09">>, <<"U+10AA", "U+2D0A">>, <<"U+10AB", "U+2D0B">>, <<"U+10AC", "U+2D0C">>,
   <<"U+10AD", "U+2D0D">>, <<"U+10AE", "U+2D0E">>, <<"U+10AF", "U+2D0F">>, <<"U+10B0", "U+2D10">>,
   <<"U+10B1", "U+2D11">>, <<"U+10B2", "U+2D12">>, <<"U+10B3", "U+2D13">>, <<"U+10B4", "U+2D14">>,
   <<"U+10B5", "U+2D15">>, <<"U+10B6", "U+2D16">>, <<"U+10B7", "U+2D17">>, <<"U+10B8", "U+2D18">>,
   <<"U+10B9", "U+2D19">>, <<"U+10BA", "U+2D1A">>, <<"U+10BB", "U+2D1B">>, <<"U+10BC", "U+2D1C">>,
   <<"U+10BD", "U+2D1D">>, <<"U+10BE", "U+2D1E">>, <<"U+10BF", "U+2D1F">>, <<"U+10C0", "U+2D20">>,
   <<"U+10C1", "U+2D21">>, <<"U+10C2", "U+2D22">>, <<"U+10C3", "U+2D23">>, <<"U+10C4", "U+2D24">>,
   <<"U+10C5", "U+2D25">>, <<"U+10C7", "U+2D27">>, <<"U+10CD", "U+2D2D">>, <<"U+13A0", "U+AB70">>,
   <<"U+13A1", "U+AB71">>, <<"U+13A2", "U+AB72">>, <<"U+13A3", "U+AB73">>, <<"U+13A4", "U+AB74">>,
   <<"U+13A5", "U+AB75">>, <<"U+13A6", "U+AB76">>, <<"U+13A7", "U+AB77">>, <<"U+13A8", "U+AB78">>,
   <<"U+13A9", "U+AB79">>, <<"U+13AA", "U+AB7A">>, <<"U+13AB", "U+AB7B">>, <<"U+13AC", "U+AB7C">>,
   <<"U+13AD", "U+AB7D">>, <<"U+13AE", "U+AB7E">>, <<"U+13AF", "U+AB7F">>, <<"U+13B0", "U+AB80">>,
   <<"U+13B1", "U+AB81">>, <<"U+13B2", "U+AB82">>, <<"U+13B3", "U+AB83">>, <<"U+13B4", "U+AB84">>,
   <<"U+13B5", "U+AB85">>, <<"U+13B6", "U+AB86">>, <<"U+13B7", "U+AB87">>, <<"U+13B8", "U+AB88">>,
   <<"U+13B9", "U+AB89">>, <<"U+13BA", "U+AB8A">>, <<"U+13BB", "U+AB8B">>, <<"U+13BC", "U+AB8C">>,
   <<"U+13BD", "U+AB8D">>, <<"U+13BE", "U+AB8E">>, <<"U+13BF", "U+AB8F">>, <<"U+13C0", "U+AB90">>,
   <<"U+13C1", "U+AB91">>, <<"U+13C2", "U+AB92">>, <<"U+13C3", "U+AB93">>, <<"U+13C4", "U+AB94">>,
   <<"U+13C5", "U+AB95">>, <<"U+13C6", "U+AB96">>, <<"U+13C7", "U+AB97">>, <<"U+13C8", "U+AB98">>,
   <<"U+13C9", "U+AB99">>, <<"U+13CA", "U+AB9A">>, <<"U+13CB", "U+AB9B">>, <<"U+13CC", "U+AB9C">>,
   <<"U+13CD", "U+AB9D">>, <<"U+13CE", "U+AB9E">>, <<"U+13CF", "U+AB9F">>, <<"U+13D0", "U+ABA0">>,
   <<"U+13D1", "U+ABA1">>, <<"U+13D2", "U+ABA2">>, <<"U+13D3", "U+ABA3">>, <<"U+13D4", "U+ABA4">>,
   <<"U+13D5", "U+ABA5">>, <<"U+13D6", "U+ABA6">>, <<"U+13D7", "U+ABA7">>, <<"U+13D8", "U+ABA8">>,
   <<"U+13D9", "U+ABA9">>, <<"U+13DA", "U+ABAA">>, <<"U+13DB", "U+ABAB">>, <<"U+13DC", "U+ABAC">>,
   <<"U+13DD", "U+ABAD">>, <<"U+13DE", "U+ABAE">>, <<"U+13DF", "U+ABAF">>, <<"U+13E0", "U+ABB0">>,
   <<"U+13E1", "U+ABB1">>, <<"U+13E2", "U+ABB2">>, <<"U+13E3", "U+ABB3">>, <<"U+13E4", "U+ABB4">>,
   <<"U+13E5", "U+ABB5">>, <<"U+13E6", "U+ABB6">>, <<"U+13E7", "U+ABB7">>, <<"U+13E8", "U+ABB8">>,
   <<"U+13E9", "U+ABB9">>, <<"U+13EA", "U+ABBA">>, <<"U+13EB", "U+ABBB">>, <<"U+13EC", "U+ABBC">>,
   <<"U+13ED", "U+ABBD">>, <<"U+13EE", "U+ABBE">>, <<"U+13EF", "U+ABBF">>, <<"U+13F0", "U+13F8">>,
   <<"U+13F1", "U+13F9">>, <<"U+13F2", "U+13FA">>, <<"U+13F3", "U+13FB">>, <<"U+13F4", "U+13FC">>,
   <<"U+13F5", "U+13FD">>, <<"U+1C90", "U+10D0">>, <<"U+1C91", "U+10D1">>, <<"U+1C92", "U+10D2">>,
   <<"U+1C93", "U+10D3">>, <<"U+1C94", "U+10D4">>, <<"U+1C95", "U+10D5">>, <<"U+1C96", "U+10D6">>,
   <<"U+1C97", "U+10D7">>, <<"U+1C98", "U+10D8">>, <<"U+1C99", "U+10D9">>, <<"U+1C9A", "U+10DA">>,
   <<"U+1C9B", "U+10DB">>, <<"U+1C9C", "U+10DC">>, <<"U+1C9D", "U+10DD">>, <<"U+1C9E", "U+10DE">>,
   <<"U+1C9F", "U+10DF">>, <<"U+1CA0", "U+10E0">>, <<"U+1CA1", "U+10E1">>, <<"U+1CA2", "U+10E2">>,
   <<"U+1CA3", "U+10E3">>, <<"U+1CA4", "U+10E4">>, <<"U+1CA5", "U+10E5">>, <<"U+1CA6", "U+10E6">>,
   <<"U+1CA7", "U+10E7">>, <<"U+1CA8", "U+10E8">>, <<"U+1CA9", "U+10E9">>, <<"U+1CAA", "U+10EA">>,
   <<"U+1CAB", "U+10EB">>, <<"U+1CAC", "U+10EC">>, <<"U+1CAD", "U+10ED">>, <<"U+1CAE", "U+10EE">>,
   <<"U+1CAF", "U+10EF">>, <<"U+1CB0", "U+10F0">>, <<"U+1CB1", "U+10F1">>, <<"U+1CB2", "U+10F2">>,
   <<"U+1CB3", "U+10F3">>, <<"U+1CB4", "U+10F4">>, <<"U+1CB5", "U+10F5">>, <<"U+1CB6", "U+10F6">>,
   <<"U+1CB7", "U+10F7">>, <<"U+1CB8", "U+10F8">>, <<"U+1CB9", "U+10F9">>, <<"U+1CBA", "U+10FA">>,
   <<"U+1CBD", "U+10FD">>, <<"U+1CBE", "U+10FE">>, <<"U+1CBF", "U+10FF">>, <<"U+1E00", "U+1E01">>,
   <<"U+1E02", "U+1E03">>, <<"U+1E04", "U+1E05">>, <<"U+1E06", "U+1E07">>, <<"U+1E08", "U+1E09">>,
   <<"U+1E0A", "U+1E0B">>, <<"U+1E0C", "U+1E0D">>, <<"U+1E0E", "U+1E0F">>, <<"U+1E10", "U+1E11">>,
   <<"U+1E12", "U+1E13">>, <<"U+1E14", "U+1E15">>, <<"U+1E16", "U+1E17">>, <<"U+1E18", "U+1E19">>,
   <<"U+1E1A", "U+1E1B">>, <<"U+1E1C", "U+1E1D">>, <<"U+1E1E", "U+1E1F">>, <<"U+1E20", "U+1E21">>,
   <<"U+1E22", "U+1E23">>, <<"U+1E24", "U+1E25">>, <<"U+1E26", "U+1E27">>, <<"U+1E28", "U+1E29">>,
   <<"U+1E2A", "U+1E2B">>, <<"U+1E2C", "U+1E2D">>, <<"U+1E2E", "U+1E2F">>, <<"U+1E30", "U+1E31">>,
   <<"U+1E32", "U+1E33">>, <<"U+1E34", "U+1E35">>, <<"U+1E36", "U+1E37">>, <<"U+1E38", "U+1E39">>,
   <<"U+1E3A", "U+1E3B">>, <<"U+1E3C", "U+1E3D">>, <<"U+1E3E", "U+1E3F">>, <<"U+1E40", "U+1E41">>,
   <<"U+1E42", "U+1E43">>, <<"U+1E44", "U+1E45">>, <<"U+1E46", "U+1E47">>, <<"U+1E48", "U+1E49">>,
   <<"U+1E4A", "U+1E4B">>, <<"U+1E4C", "U+1E4D">>, <<"U+1E4E", "U+1E4F">>, <<"U+1E50", "U+1E51">>,
   <<"U+1E52", "U+1E53">>, <<"U+1E54", "U+1E55">>, <<"U+1E56", "U+1E57">>, <<"U+1E58", "U+1E59">>,
   <<"U+1E5A", "U+1E5B">>, <<"U+1E5C", "U+1E5D">>, <<"U+1E5E", "U+1E5F">>, <<"U+1E60", "U+1E61">>,
   <<"U+1E62", "U+1E63">>, <<"U+1E64", "U+1E65">>, <<"U+1E66", "U+1E67">>, <<"U+1E68", "U+1E69">>,
   <<"U+1E6A", "U+1E6B">>, <<"U+1E6C", "U+1E6D">>, <<"U+1E6E", "U+1E6F">>, <<"U+1E70", "U+1E71">>,
   <<"U+1E72", "U+1E73">>, <<"U+1E74", "U+1E75">>, <<"U+1E76", "U+1E77">>, <<"U+1E78", "U+1E79">>,
   <<"U+1E7A", "U+1E7B">>, <<"U+1E7C", "U+1E7D">>, <<"U+1E7E", "U+1E7F">>, <<"U+1E80", "U+1E81">>,
   <<"U+1E82", "U+1E83">>, <<"U+1E84", "U+1E85">>, <<"U+1E86", "U+1E87">>, <<"U+1E88", "U+1E89">>,
   <<"U+1E8A", "U+1E8B">>, <<"U+1E8C", "U+1E8D">>, <<"U+1E8E", "U+1E8F">>, <<"U+1E90", "U+1E91">>,
   <<"U+1E92", "U+1E93">>, <<"U+1E94", "U+1E95">>, <<"U+1E9E", "U+00DF">>, <<"U+1EA0", "U+1EA1">>,
   <<"U+1EA2", "U+1EA3">>, <<"U+1EA4", "U+1EA5">>, <<"U+1EA6", "U+1EA7">>, <<"U+1EA8", "U+1EA9">>,
   <<"U+1EAA", "U+1EAB">>, <<"U+1EAC", "U+1EAD">>, <<"U+1EAE", "U+1EAF">>, <<"U+1EB0", "U+1EB1">>,
   <<"U+1EB2", "U+1EB3">>, <<"U+1EB4", "U+1EB5">>, <<"U+1EB6", "U+1EB7">>, <<"U+1EB8", "U+1EB9">>,
   <<"U+1EBA", "U+1EBB">>, <<"U+1EBC", "U+1EBD">>, <<"U+1EBE", "U+1EBF">>, <<"U+1EC0", "U+1EC1">>,
   <<"U+1EC2", "U+1EC3">>, <<"U+1EC4", "U+1EC5">>, <<"U+1EC6", "U+1EC7">>, <<"U+1EC8", "U+1EC9">>,
   <<"U+1ECA", "U+1ECB">>, <<"U+1ECC", "U+1ECD">>, <<"U+1ECE", "U+1ECF">>, <<"U+1ED0", "U+1ED1">>,
   <<"U+1ED2", "U+1ED3">>, <<"U+1ED4", "U+1ED5">>, <<"U+1ED6", "U+1ED7">>, <<"U+1ED8", "U+1ED9">>,
   <<"U+1EDA", "U+1EDB">>, <<"U+1EDC", "U+1EDD">>, <<"U+1EDE", "U+1EDF">>, <<"U+1EE0", "U+1EE1">>,
   <<"U+1EE2", "U+1EE3">>, <<"U+1EE4", "U+1EE5">>, <<"U+1EE6", "U+1EE7">>, <<"U+1EE8", "U+1EE9">>,
   <<"U+1EEA", "U+1EEB">>, <<"U+1EEC", "U+1EED">>, <<"U+1EEE", "U+1EEF">>, <<"U+1EF0", "U+1EF1">>,
   <<"U+1EF2", "U+1EF3">>, <<"U+1EF4", "U+1EF5">>, <<"U+1EF6", "U+1EF7">>, <<"U+1EF8", "U+1EF9">>,
   <<"U+1EFA", "U+1EFB">>, <<"U+1EFC", "U+1EFD">>, <<"U+1EFE", "U+1EFF">>, <<"U+1F08", "U+1F00">>,
   <<"U+1F09", "U+1F01">>, <<"U+1F0A", "U+1F02">>, <<"U+1F0B", "U+1F03">>, <<"U+1F0C", "U+1F04">>,
   <<"U+1F0D", "U+1F05">>, <<"U+1F0E", "U+1F06">>, <<"U+1F0F", "U+1F07">>, <<"U+1F18", "U+1F10">>,
   <<"U+1F19", "U+1F11">>, <<"U+1F1A", "U+1F12">>, <<"U+1F1B", "U+1F13">>, <<"U+1F1C", "U+1F14">>,
   <<"U+1F1D", "U+1F15">>, <<"U+1F28", "U+1F20">>, <<"U+1F29", "U+1F21">>, <<"U+1F2A", "U+1F22">>,
   <<"U+1F2B", "U+1F23">>, <<"U+1F2C", "U+1F24">>, <<"U+1F2D", "U+1F25">>, <<"U+1F2E", "U+1F26">>,
   <<"U+1F2F", "U+1F27">>, <<"U+1F38", "U+1F30">>, <<"U+1F39", "U+1F31">>, <<"U+1F3A", "U+1F32">>,
   <<"U+1F3B", "U+1F33">>, <<"U+1F3C", "U+1F34">>, <<"U+1F3D", "U+1F35">>, <<"U+1F3E", "U+1F36">>,
   <<"U+1F3F", "U+1F37">>, <<"U+1F48", "U+1F40">>, <<"U+1F49", "U+1F41">>, <<"U+1F4A", "U+1F42">>,
   <<"U+1F4B", "U+1F43">>, <<"U+1F4C", "U+1F44">>, <<"U+1F4D", "U+1F45">>, <<"U+1F59", "U+1F51">>,
   <<"U+1F5B", "U+1F53">>, <<"U+1F5D", "U+1F55">>, <<"U+1F5F", "U+1F57">>, <<"U+1F68", "U+1F60">>,
   <<"U+1F69", "U+1F61">>, <<"U+1F6A", "U+1F62">>, <<"U+1F6B", "U+1F63">>, <<"U+1F6C", "U+1F64">>,
   <<"U+1F6D", "U+1F65">>, <<"U+1F6E", "U+1F66">>, <<"U+1F6F", "U+1F67">>, <<"U+1F88", "U+1F80">>,
   <<"U+1F89", "U+1F81">>, <<"U+1F8A", "U+1F82">>, <<"U+1F8B", "U+1F83">>, <<"U+1F8C", "U+1F84">>,
   <<"U+1F8D", "U+1F85">>, <<"U+1F8E", "U+1F86">>, <<"U+1F8F", "U+1F87">>, <<"U+1F98", "U+1F90">>,
   <<"U+1F99", "U+1F91">>, <<"U+1F9A", "U+1F92">>, <<"U+1F9B", "U+1F93">>, <<"U+1F9C", "U+1F94">>,
   <<"U+1F9D", "U+1F95">>, <<"U+1F9E", "U+1F96">>, <<"U+1F9F", "U+1F97">>, <<"U+1FA8", "U+1FA0">>,
   <<"U+1FA9", "U+1FA1">>, <<"U+1FAA", "U+1FA2">>, <<"U+1FAB", "U+1FA3">>, <<"U+1FAC", "U+1FA4">>,
   <<"U+1FAD", "U+1FA5">>, <<"U+1FAE", "U+1FA6">>, <<"U+1FAF", "U+1FA7">>, <<"U+1FB8", "U+1FB0">>,
   <<"U+1FB9", "U+1FB1">>, <<"U+1FBA", "U+1F70">>, <<"U+1FBB", "U+1F71">>, <<"U+1FBC", "U+1FB3">>,
   <<"U+1FC8", "U+1F72">>, <<"U+1FC9", "U+1F73">>, <<"U+1FCA", "U+1F74">>, <<"U+1FCB", "U+1F75">>,
   <<"U+1FCC", "U+1FC3">>, <<"U+1FD8", "U+1FD0">>, <<"U+1FD9", "U+1FD1">>, <<"U+1FDA", "U+1F76">>,
   <<"U+1FDB", "U+1F77">>, <<"U+1FE8", "U+1FE0">>, <<"U+1FE9", "U+1FE1">>, <<"U+1FEA", "U+1F7A">>,
   <<"U+1FEB", "U+1F7B">>, <<"U+1FEC", "U+1FE5">>, <<"U+1FF8", "U+1F78">>, <<"U+1FF9", "U+1F79">>,
   <<"U+1FFA", "U+1F7C">>, <<"U+1FFB", "U+1F7D">>, <<"U+1FFC", "U+1FF3">>, <<"U+2126", "U+03C9">>,
   <<"U+212A", "k">>, <<"U+212B", "U+00E5">>, <<"U+2132", "U+214E">>, <<"U+2160", "U+2170">>,
   <<"U+2161", "U+2171">>, <<"U+2162", "U+2172">>, <<"U+2163", "U+2173">>, <<"U+2164", "U+2174">>,
   <<"U+2165", "U+2175">>, <<"U+2166", "U+2176">>, <<"U+2167", "U+2177">>, <<"U+2168", "U+2178">>,
   <<"U+2169", "U+2179">>, <<"U+216A", "U+217A">>, <<"U+216B", "U+217B">>, <<"U+216C", "U+217C">>,
   <<"U+216D", "U+217D">>, <<"U+216E", "U+217E">>, <<"U+216F", "U+217F">>, <<"U+2183", "U+2184">>,
   <<"U+24B6", "U+24D0">>, <<"U+24B7", "U+24D1">>, <<"U+24B8", "U+24D2">>, <<"U+24B9", "U+24D3">>,
   <<"U+24BA", "U+24D4">>, <<"U+24BB", "U+24D5">>, <<"U+24BC", "U+24D6">>, <<"U+24BD", "U+24D7">>,
   <<"U+24BE", "U+24D8">>, <<"U+24BF", "U+24D9">>, <<"U+24C0", "U+24DA">>, <<"U+24C1", "U+24DB">>,
   <<"U+24C2", "U+24DC">>, <<"U+24C3", "U+24DD">>, <<"U+24C4", "U+24DE">>, <<"U+24C5", "U+24DF">>,
   <<"U+24C6", "U+24E0">>, <<"U+24C7", "U+24E1">>, <<"U+24C8", "U+24E2">>, <<"U+24C9", "U+24E3">>,
   <<"U+24CA", "U+24E4">>, <<"U+24CB", "U+24E5">>, <<"U+24CC", "U+24E6">>, <<"U+24CD", "U+24E7">>,
   <<"U+24CE", "U+24E8">>, <<"U+24CF", "U+24E9">>, <<"U+2C00", "U+2C30">>, <<"U+2C01", "U+2C31">>,
   <<"U+2C02", "U+2C32">>, <<"U+2C03", "U+2C33">>, <<"U+2C04", "U+2C34">>, <<"U+2C05", "U+2C35">>,
   <<"U+2C06", "U+2C36">>, <<"U+2C07", "U+2C37">>, <<"U+2C08", "U+2C38">>, <<"U+2C09", "U+2C39">>,
   <<"U+2C0A", "U+2C3A">>, <<"U+2C0B", "U+2C3B">>, <<"U+2C0C", "U+2C3C">>, <<"U+2C0D", "U+2C3D">>,
   <<"U+2C0E", "U+2C3E">>, <<"U+2C0F", "U+2C3F">>, <<"U+2C10", "U+2C40">>, <<"U+2C11", "U+2C41">>,
   <<"U+2C12", "U+2C42">>, <<"U+2C13", "U+2C43">>, <<"U+2C14", "U+2C44">>, <<"U+2C15", "U+2C45">>,
   <<"U+2C16", "U+2C46">>, <<"U+2C17", "U+2C47">>, <<"U+2C18", "U+2C48">>, <<"U+2C19", "U+2C49">>,
   <<"U+2C1A", "U+2C4A">>, <<"U+2C1B", "U+2C4B">>, <<"U+2C1C", "U+2C4C">>, <<"U+2C1D", "U+2C4D">>,
   <<"U+2C1E", "U+2C4E">>, <<"U+2C1F", "U+2C4F">>, <<"U+2C20", "U+2C50">>, <<"U+2C21", "U+2C51">>,
   <<"U+2C22", "U+2C52">>, <<"U+2C23", "U+2C53">>, <<"U+2C24", "U+2C54">>, <<"U+2C25", "U+2C55">>,
   <<"U+2C26", "U+2C56">>, <<"U+2C27", "U+2C57">>, <<"U+2C28", "U+2C58">>, <<"U+2C29", "U+2C59">>,
   <<"U+2C2A", "U+2C5A">>, <<"U+2C2B", "U+2C5B">>, <<"U+2C2C", "U+2C5C">>, <<"U+2C2D", "U+2C5D">>,
   <<"U+2C2E", "U+2C5E">>, <<"U+2C2F", "U+2C5F">>, <<"U+2C60", "U+2C61">>, <<"U+2C62", "U+026B">>,
   <<"U+2C63", "U+1D7D">>, <<"U+2C64", "U+027D">>, <<"U+2C67", "U+2C68">>, <<"U+2C69", "U+2C6A">>,
   <<"U+2C6B", "U+2C6C">>, <<"U+2C6D", "U+0251">>, <<"U+2C6E", "U+0271">>, <<"U+2C6F", "U+0250">>,
   <<"U+2C70", "U+0252">>, <<"U+2C72", "U+2C73">>, <<"U+2C75", "U+2C76">>, <<"U+2C7E", "U+023F">>,
   <<"U+2C7F", "U+0240">>, <<"U+2C80", "U+2C81">>, <<"U+2C82", "U+2C83">>, <<"U+2C84", "U+2C85">>,
   <<"U+2C86", "U+2C87">>, <<"U+2C88", "U+2C89">>, <<"U+2C8A", "U+2C8B">>, <<"U+2C8C", "U+2C8D">>,
   <<"U+2C8E", "U+2C8F">>, <<"U+2C90", "U+2C91">>, <<"U+2C92", "U+2C93">>, <<"U+2C94", "U+2C95">>,
   <<"U+2C96", "U+2C97">>, <<"U+2C98", "U+2C99">>, <<"U+2C9A", "U+2C9B">>, <<"U+2C9C", "U+2C9D">>,
   <<"U+2C9E", "U+2C9F">>, <<"U+2CA0", "U+2CA1">>, <<"U+2CA2", "U+2CA3">>, <<"U+2CA4", "U+2CA5">>,
   <<"U+2CA6", "U+2CA7">>, <<"U+2CA8", "U+2CA9">>, <<"U+2CAA", "U+2CAB">>, <<"U+2CAC", "U+2CAD">>,
   <<"U+2CAE", "U+2CAF">>, <<"U+2CB0", "U+2CB1">>, <<"U+2CB2", "U+2CB3">>, <<"U+2CB4", "U+2CB5">>,
   <<"U+2CB6", "U+2CB7">>, <<"U+2CB8", "U+2CB9">>, <<"U+2CBA", "U+2CBB">>, <<"U+2CBC", "U+2CBD">>,
   <<"U+2CBE", "U+2CBF">>, <<"U+2CC0", "U+2CC1">>, <<"U+2CC2", "U+2CC3">>, <<"U+2CC4", "U+2CC5">>,
   <<"U+2CC6", "U+2CC7">>, <<"U+2CC8", "U+2CC9">>, <<"U+2CCA", "U+2CCB">>, <<"U+2CCC", "U+2CCD">>,
   <<"U+2CCE", "U+2CCF">>, <<"U+2CD0", "U+2CD1">>, <<"U+2CD2", "U+2CD3">>, <<"U+2CD4", "U+2CD5">>,
   <<"U+2CD6", "U+2CD7">>, <<"U+2CD8", "U+2CD9">>, <<"U+2CDA", "U+2CDB">>, <<"U+2CDC", "U+2CDD">>,
   <<"U+2CDE", "U+2CDF">>, <<"U+2CE0", "U+2CE1">>, <<"U+2CE2", "U+2CE3">>, <<"U+2CEB", "U+2CEC">>,
   <<"U+2CED", "U+2CEE">>, <<"U+2CF2", "U+2CF3">>, <<"U+A640", "U+A641">>, <<"U+A642", "U+A643">>,
   <<"U+A644", "U+A645">>, <<"U+A646", "U+A647">>, <<"U+A648", "U+A649">>, <<"U+A64A", "U+A64B">>,
   <<"U+A64C", "U+A64D">>, <<"U+A64E", "U+A64F">>, <<"U+A650", "U+A651">>, <<"U+A652", "U+A653">>,
   <<"U+A654", "U+A655">>, <<"U+A656", "U+A657">>, <<"U+A658", "U+A659">>, <<"U+A65A", "U+A65B">>,
   <<"U+A65C", "U+A65D">>, <<"U+A65E", "U+A65F">>, <<"U+A660", "U+A661">>, <<"U+A662", "U+A663">>,
   <<"U+A664", "U+A665">>, <<"U+A666", "U+A667">>, <<"U+A668", "U+A669">>, <<"U+A66A", "U+A66B">>,
   <<"U+A66C", "U+A66D">>, <<"U+A680", "U+A681">>, <<"U+A682", "U+A683">>, <<"U+A684", "U+A685">>,
   <<"U+A686", "U+A687">>, <<"U+A688", "U+A689">>, <<"U+A68A", "U+A68B">>, <<"U+A68C", "U+A68D">>,
   <<"U+A68E", "U+A68F">>, <<"U+A690", "U+A691">>, <<"U+A692", "U+A693">>, <<"U+A694", "U+A695">>,
   <<"U+A696", "U+A697">>, <<"U+A698", "U+A699">>, <<"U+A69A", "U+A69B">>, <<"U+A722", "U+A723">>,
   <<"U+A724", "U+A725">>, <<"U+A726", "U+A727">>, <<"U+A728", "U+A729">>, <<"U+A72A", "U+A72B">>,
   <<"U+A72C", "U+A72D">>, <<"U+A72E", "U+A72F">>, <<"U+A732", "U+A733">>, <<"U+A734", "U+A735">>,
   <<"U+A736", "U+A737">>, <<"U+A738", "U+A739">>, <<"U+A73A", "U+A73B">>, <<"U+A73C", "U+A73D">>,
   <<"U+A73E", "U+A73F">>, <<"U+A740", "U+A741">>, <<"U+A742", "U+A743">>, <<"U+A744", "U+A745">>,
   <<"U+A746", "U+A747">>, <<"U+A748", "U+A749">>, <<"U+A74A", "U+A74B">>, <<"U+A74C", "U+A74D">>,
   <<"U+A74E", "U+A74F">>, <<"U+A750", "U+A751">>, <<"U+A752", "U+A753">>, <<"U+A754", "U+A755">>,
   <<"U+A756", "U+A757">>, <<"U+A758", "U+A759">>, <<"U+A75A", "U+A75B">>, <<"U+A75C", "U+A75D">>,
   <<"U+A75E", "U+A75F">>, <<"U+A760", "U+A761">>, <<"U+A762", "U+A763">>, <<"U+A764", "U+A765">>,
   <<"U+A766", "U+A767">>, <<"U+A768", "U+A769">>, <<"U+A76A", "U+A76B">>, <<"U+A76C", "U+A76D">>,
   <<"U+A76E", "U+A76F">>, <<"U+A779", "U+A77A">>, <<"U+A77B", "U+A77C">>, <<"U+A77D", "U+1D79">>,
   <<"U+A77E", "U+A77F">>, <<"U+A780", "U+A781">>, <<"U+A782", "U+A783">>, <<"U+A784", "U+A785">>,
   <<"U+A786", "U+A787">>, <<"U+A78B", "U+A78C">>, <<"U+A78D", "U+0265">>, <<"U+A790", "U+A791">>,
   <<"U+A792", "U+A793">>, <<"U+A796", "U+A797">>, <<"U+A798", "U+A799">>, <<"U+A79A", "U+A79B">>,
   <<"U+A79C", "U+A79D">>, <<"U+A79E", "U+A79F">>, <<"U+A7A0", "U+A7A1">>, <<"U+A7A2", "U+A7A3">>,
   <<"U+A7A4", "U+A7A5">>, <<"U+A7A6", "U+A7A7">>, <<"U+A7A8", "U+A7A9">>, <<"U+A7AA", "U+0266">>,
   <<"U+A7AB", "U+025C">>, <<"U+A7AC", "U+0261">>, <<"U+A7AD", "U+026C">>, <<"U+A7AE", "U+026A">>,
   <<"U+A7B0", "U+029E">>, <<"U+A7B1", "U+0287">>, <<"U+A7B2", "U+029D">>, <<"U+A7B3", "U+AB53">>,
   <<"U+A7B4", "U+A7B5">>, <<"U+A7B6", "U+A7B7">>, <<"U+A7B8", "U+A7B9">>, <<"U+A7BA", "U+A7BB">>,
   <<"U+A7BC", "U+A7BD">>, <<"U+A7BE", "U+A7BF">>, <<"U+A7C0", "U+A7C1">>, <<"U+A7C2", "U+A7C3">>,
   <<"U+A7C4", "U+A794">>, <<"U+A7C5", "U+0282">>, <<"U+A7C6", "U+1D8E">>, <<"U+A7C7", "U+A7C8">>,
   <<"U+A7C9", "U+A7CA">>, <<"U+A7D0", "U+A7D1">>, <<"U+A7D6", "U+A7D7">>, <<"U+A7D8", "U+A7D9">>,
   <<"U+A7F5", "U+A7F6">>, <<"U+FF21", "U+FF41">>, <<"U+FF22", "U+FF42">>, <<"U+FF23", "U+FF43">>,
   <<"U+FF24", "U+FF44">>, <<"U+FF25", "U+FF45">>, <<"U+FF26", "U+FF46">>, <<"U+FF27", "U+FF47">>,
   <<"U+FF28", "U+FF48">>, <<"U+FF29", "U+FF49">>, <<"U+FF2A", "U+FF4A">>, <<"U+FF2B", "U+FF4B">>,
   <<"U+FF2C", "U+FF4C">>, <<"U+FF2D", "U+FF4D">>, <<"U+FF2E", "U+FF4E">>, <<"U+FF2F", "U+FF4F">>,
   <<"U+FF30", "U+FF50">>, <<"U+FF31", "U+FF51">>, <<"U+FF32", "U+FF52">>, <<"U+FF33", "U+FF53">>,
   <<"U+FF34", "U+FF54">>, <<"U+FF35", "U+FF55">>, <<"U+FF36", "U+FF56">>, <<"U+FF37", "U+FF57">>,
   <<"U+FF38", "U+FF58">>, <<"U+FF39", "U+FF59">>, <<"U+FF3A", "U+FF5A">>, <<"U+10400", "U+10428">>,
   <<"U+10401", "U+10429">>, <<"U+10402", "U+1042A">>, <<"U+10403", "U+1042B">>, <<"U+10404", "U+1042C">>,
   <<"U+10405", "U+1042D">>, <<"U+10406", "U+1042E">>, <<"U+10407", "U+1042F">>, <<"U+10408", "U+10430">>,
   <<"U+10409", "U+10431">>, <<"U+1040A", "U+10432">>, <<"U+1040B", "U+10433">>, <<"U+1040C", "U+10434">>,
   <<"U+1040D", "U+10435">>, <<"U+1040E", "U+10436">>, <<"U+1040F", "U+10437">>, <<"U+10410", "U+10438">>,
   <<"U+10411", "U+10439">>, <<"U+10412", "U+1043A">>, <<"U+10413", "U+1043B">>, <<"U+10414", "U+1043C">>,
   <<"U+10415", "U+1043D">>, <<"U+10416", "U+1043E">>, <<"U+10417", "U+1043F">>, <<"U+10418", "U+10440">>,
   <<"U+10419", "U+10441">>, <<"U+1041A", "U+10442">>, <<"U+1041B", "U+10443">>, <<"U+1041C", "U+10444">>,
   <<"U+1041D", "U+10445">>, <<"U+1041E", "U+10446">>, <<"U+1041F", "U+10447">>, <<"U+10420", "U+10448">>,
   <<"U+10421", "U+10449">>, <<"U+10422", "U+1044A">>, <<"U+10423", "U+1044B">>, <<"U+10424", "U+1044C">>,
   <<"U+10425", "U+1044D">>, <<"U+10426", "U+1044E">>, <<"U+10427", "U+1044F">>, <<"U+104B0", "U+104D8">>,
   <<"U+104B1", "U+104D9">>, <<"U+104B2", "U+104DA">>, <<"U+104B3", "U+104DB">>, <<"U+104B4", "U+104DC">>,
   <<"U+104B5", "U+104DD">>, <<"U+104B6", "U+104DE">>, <<"U+104B7", "U+104DF">>, <<"U+104B8", "U+104E0">>,
   <<"U+104B9", "U+104E1">>, <<"U+104BA", "U+104E2">>, <<"U+104BB", "U+104E3">>, <<"U+104BC", "U+104E4">>,
   <<"U+104BD", "U+104E5">>, <<"U+104BE", "U+104E6">>, <<"U+104BF", "U+104E7">>, <<"U+104C0", "U+104E8">>,
   <<"U+104C1", "U+104E9">>, <<"U+104C2", "U+104EA">>, <<"U+104C3", "U+104EB">>, <<"U+104C4", "U+104EC">>,
   <<"U+104C5", "U+104ED">>, <<"U+104C6", "U+104EE">>, <<"U+104C7", "U+104EF">>, <<"U+104C8", "U+104F0">>,
   <<"U+104C9", "U+104F1">>, <<"U+104CA", "U+104F2">>, <<"U+104CB", "U+104F3">>, <<"U+104CC", "U+104F4">>,
   <<"U+104CD", "U+104F5">>, <<"U+104CE", "U+104F6">>, <<"U+104CF", "U+104F7">>, <<"U+104D0", "U+104F8">>,
   <<"U+104D1", "U+104F9">>, <<"U+104D2", "U+104FA">>, <<"U+104D3", "U+104FB">>, <<"U+10570", "U+10597">>,
   <<"U+10571", "U+10598">>, <<"U+10572", "U+10599">>, <<"U+10573", "U+1059A">>, <<"U+10574", "U+1059B">>,
   <<"U+10575", "U+1059C">>, <<"U+10576", "U+1059D">>, <<"U+10577", "U+1059E">>, <<"U+10578", "U+1059F">>,
   <<"U+10579", "U+105A0">>, <<"U+1057A", "U+105A1">>, <<"U+1057C", "U+105A3">>, <<"U+1057D", "U+105A4">>,
   <<"U+1057E", "U+105A5">>, <<"U+1057F", "U+105A6">>, <<"U+10580", "U+105A7">>, <<"U+10581", "U+105A8">>,
   <<"U+10582", "U+105A9">>, <<"U+10583", "U+105AA">>, <<"U+10584", "U+105AB">>, <<"U+10585", "U+105AC">>,
   <<"U+10586", "U+105AD">>, <<"U+10587", "U+105AE">>, <<"U+10588", "U+105AF">>, <<"U+10589", "U+105B0">>,
   <<"U+1058A", "U+105B1">>, <<"U+1058C", "U+105B3">>, <<"U+1058D", "U+105B4">>, <<"U+1058E", "U+105B5">>,
   <<"U+1058F", "U+105B6">>, <<"U+10590", "U+105B7">>, <<"U+10591", "U+105B8">>, <<"U+10592", "U+105B9">>,
   <<"U+10594", "U+105BB">>, <<"U+10595", "U+105BC">>, <<"U+10C80", "U+10CC0">>, <<"U+10C81", "U+10CC1">>,
   <<"U+10C82", "U+10CC2">>, <<"U+10C83", "U+10CC3">>, <<"U+10C84", "U+10CC4">>, <<"U+10C85", "U+10CC5">>,
   <<"U+10C86", "U+10CC6">>, <<"U+10C87", "U+10CC7">>, <<"U+10C88", "U+10CC8">>, <<"U+10C89", "U+10CC9">>,
   <<"U+10C8A", "U+10CCA">>, <<"U+10C8B", "U+10CCB">>, <<"U+10C8C", "U+10CCC">>, <<"U+10C8D", "U+10CCD">>,
   <<"U+10C8E", "U+10CCE">>, <<"U+10C8F", "U+10CCF">>, <<"U+10C90", "U+10CD0">>, <<"U+10C91", "U+10CD1">>,
   <<"U+10C92", "U+10CD2">>, <<"U+10C93", "U+10CD3">>, <<"U+10C94", "U+10CD4">>, <<"U+10C95", "U+10CD5">>,
   <<"U+10C96", "U+10CD6">>, <<"U+10C97", "U+10CD7">>, <<"U+10C98", "U+10CD8">>, <<"U+10C99", "U+10CD9">>,
   <<"U+10C9A", "U+10CDA">>, <<"U+10C9B", "U+10CDB">>, <<"U+10C9C", "U+10CDC">>, <<"U+10C9D", "U+10CDD">>,
   <<"U+10C9E", "U+10CDE">>, <<"U+10C9F", "U+10CDF">>, <<"U+10CA0", "U+10CE0">>, <<"U+10CA1", "U+10CE1">>,
   <<"U+10CA2", "U+10CE2">>, <<"U+10CA3", "U+10CE3">>, <<"U+10CA4", "U+10CE4">>, <<"U+10CA5", "U+10CE5">>,
   <<"U+10CA6", "U+10CE6">>, <<"U+10CA7", "U+10CE7">>, <<"U+10CA8", "U+10CE8">>, <<"U+10CA9", "U+10CE9">>,
   <<"U+10CAA", "U+10CEA">>, <<"U+10CAB", "U+10CEB">>, <<"U+10CAC", "U+10CEC">>, <<"U+10CAD", "U+10CED">>,
   <<"U+10CAE", "U+10CEE">>, <<"U+10CAF", "U+10CEF">>, <<"U+10CB0", "U+10CF0">>, <<"U+10CB1", "U+10CF1">>,
   <<"U+10CB2", "U+10CF2">>, <<"U+118A0", "U+118C0">>, <<"U+118A1", "U+118C1">>, <<"U+118A2", "U+118C2">>,
   <<"U+118A3", "U+118C3">>, <<"U+118A4", "U+118C4">>, <<"U+118A5", "U+118C5">>, <<"U+118A6", "U+118C6">>,
   <<"U+118A7", "U+118C7">>, <<"U+118A8", "U+118C8">>, <<"U+118A9", "U+118C9">>, <<"U+118AA", "U+118CA">>,
   <<"U+118AB", "U+118CB">>, <<"U+118AC", "U+118CC">>, <<"U+118AD", "U+118CD">>, <<"U+118AE", "U+118CE">>,
   <<"U+118AF", "U+118CF">>, <<"U+118B0", "U+118D0">>, <<"U+118B1", "U+118D1">>, <<"U+118B2", "U+118D2">>,
   <<"U+118B3", "U+118D3">>, <<"U+118B4", "U+118D4">>, <<"U+118B5", "U+118D5">>, <<"U+118B6", "U+118D6">>,
   <<"U+118B7", "U+118D7">>, <<"U+118B8", "U+118D8">>, <<"U+118B9", "U+118D9">>, <<"U+118BA", "U+118DA">>,
   <<"U+118BB", "U+118DB">>, <<"U+118BC", "U+118DC">>, <<"U+118BD", "U+118DD">>, <<"U+118BE", "U+118DE">>,
   <<"U+118BF", "U+118DF">>, <<"U+16E40", "U+16E60">>, <<"U+16E41", "U+16E61">>, <<"U+16E42", "U+16E62">>,
   <<"U+16E43", "U+16E63">>, <<"U+16E44", "U+16E64">>, <<"U+16E45", "U+16E65">>, <<"U+16E46", "U+16E66">>,
   <<"U+16E47", "U+16E67">>, <<"U+16E48", "U+16E68">>, <<"U+16E49", "U+16E69">>, <<"U+16E4A", "U+16E6A">>,
   <<"U+16E4B", "U+16E6B">>, <<"U+16E4C", "U+16E6C">>, <<"U+16E4D", "U+16E6D">>, <<"U+16E4E", "U+16E6E">>,
   <<"U+16E4F", "U+16E6F">>, <<"U+16E50", "U+16E70">>, <<"U+16E51", "U+16E71">>, <<"U+16E52", "U+16E72">>,
   <<"U+16E53", "U+16E73">>, <<"U+16E54", "U+16E74">>, <<"U+16E55", "U+16E75">>, <<"U+16E56", "U+16E76">>,
   <<"U+16E57", "U+16E77">>, <<"U+16E58", "U+16E78">>, <<"U+16E59", "U+16E79">>, <<"U+16E5A", "U+16E7A">>,
   <<"U+16E5B", "U+16E7B">>, <<"U+16E5C", "U+16E7C">>, <<"U+16E5D", "U+16E7D">>, <<"U+16E5E", "U+16E7E">>,
   <<"U+16E5F", "U+16E7F">>, <<"U+1E900", "U+1E922">>, <<"U+1E901", "U+1E923">>, <<"U+1E902", "U+1E924">>,
   <<"U+1E903", "U+1E925">>, <<"U+1E904", "U+1E926">>, <<"U+1E905", "U+1E927">>, <<"U+1E906", "U+1E928">>,
   <<"U+1E907", "U+1E929">>, <<"U+1E908", "U+1E92A">>, <<"U+1E909", "U+1E92B">>, <<"U+1E90A", "U+1E92C">>,
   <<"U+1E90B", "U+1E92D">>, <<"U+1E90C", "U+1E92E">>, <<"U+1E90D", "U+1E92F">>, <<"U+1E90E", "U+1E930">>,
   <<"U+1E90F", "U+1E931">>, <<"U+1E910", "U+1E932">>, <<"U+1E911", "U+1E933">>, <<"U+1E912", "U+1E934">>,
   <<"U+1E913", "U+1E935">>, <<"U+1E914", "U+1E936">>, <<"U+1E915", "U+1E937">>, <<"U+1E916", "U+1E938">>,
   <<"U+1E917", "U+1E939">>, <<"U+1E918", "U+1E93A">>, <<"U+1E919", "U+1E93B">>, <<"U+1E91A", "U+1E93C">>,
   <<"U+1E91B", "U+1E93D">>, <<"U+1E91C", "U+1E93E">>, <<"U+1E91D", "U+1E93F">>, <<"U+1E91E", "U+1E940">>,
   <<"U+1E91F", "U+1E941">>, <<"U+1E920", "U+1E942">>, <<"U+1E921", "U+1E943">>
  }

\* unicode.ToLower: every other character is its own lower case.
LowerRune(c) ==
  IF c \in DOMAIN UpperToLower THEN UpperToLower[c]
  ELSE IF \E p \in NonASCIIToLower : p[1] = c
  THEN (CHOOSE p \in NonASCIIToLower : p[1] = c)[2]
  ELSE c

\* strings.ToLower
ToLower(s) == [i \in 1..Len(s) |-> LowerRune(s[i])]

\* The case folding under which encoding/json matches a member name to a
\* struct field: ASCII letters without regard to case, the long s (U+017F)
\* as s and the Kelvin sign (U+212A) as k.
FoldRune(c) ==
  IF c \in DOMAIN UpperToLower THEN UpperToLower[c]
  ELSE IF c = "U+017F" THEN "s"
  ELSE IF c = "U+212A" THEN "k"
  ELSE c

FoldName(s) == [i \in 1..Len(s) |-> FoldRune(s[i])]

(***************************************************************************)
(* Go maps.  A map[string]string is nil or a function from keys to values; *)
(* indexing a missing key (or a nil map) yields the empty string.          *)
(***************************************************************************)
NilMap == [isNil |-> TRUE, m |-> <<>>]
MapOf(f) == [isNil |-> FALSE, m |-> f]
Get(target, k) ==
  IF ~target.isNil /\ k \in DOMAIN target.m THEN target.m[k] ELSE sEmpty

(***************************************************************************)
(* JSON documents, as tagged values.  An object is the sequence of its     *)
(* members as written, in document order; a name may occur more than once. *)
(* Arrays are sequences; strings, numbers and booleans are leaves.  The    *)
(* numbers of the model are integers within int32.  A JLit is a well-      *)
(* formed container object whose members the model does not look into.     *)
(***************************************************************************)
Member(k, v) == [k |-> k, v |-> v]
JObj(ms) == [t |-> "obj", ms |-> ms]
JArr(a) == [t |-> "arr", a |-> a]
JStr(s) == [t |-> "str", s |-> s]
JNum(n) == [t |-> "num", n |-> n]
JBool(b) == [t |-> "bool", b |-> b]
JLit(v) == [t |-> "lit", v |-> v]
JNull == [t |-> "null"]
Missing == [t |-> "missing"]

\* The function with the pairs of f and k mapped to v (k added or overwritten).
Put(f, k, v) == [x \in (DOMAIN f) \cup {k} |-> IF x = k THEN v ELSE f[x]]
EmptyFn == [x \in {} |-> sEmpty]

\* The annotation keys of the model in the order of their bytes, the order in
\* which json.Marshal writes the keys of a map.
SortedKeys ==
  <<prometheusPathKey, prometheusPortKey, prometheusScrapeKey, injectKey,
    statusKey, teamKey>>

\* json.Marshal of a map[string]string with keys among SortedKeys.
MarshalMap(f) ==
  LET ks == SelectSeq(SortedKeys, LAMBDA k : k \in DOMAIN f)
  IN JObj([i \in 1..Len(ks) |-> Member(ks[i], JStr(f[ks[i]]))])

(***************************************************************************)
(* The sidecar template and the patch operations.                          *)
(***************************************************************************)
getDefaultSidecar ==
  [Name |-> <<"exporter">>,
   Image |-> exporterDockerImage,
   ImagePullPolicy |-> "IfNotPresent",
   Ports |-> <<[ContainerPort |-> ContainerPort, Name |-> "http", Protocol |-> "TCP"]>>,
   Resources |-> [Requests |-> [cpu |-> "100m", memory |-> "100Mi"],
                  Limits |-> [cpu |-> "100m", memory |-> "100Mi"]]]

\* "/spec/containers/-" and "/metadata/annotations"
AppendPath ==
  <<"/", "s", "p", "e", "c", "/", "c", "o", "n", "t", "a", "i", "n", "e", "r", "s",
    "/", "-">>
AnnotationsPath ==
  <<"/", "m", "e", "t", "a", "d", "a", "t", "a",
    "/", "a", "n", "n", "o", "t", "a", "t", "i", "o", "n", "s">>

addSidecar ==
  [Op |-> "add",
   Path |-> AppendPath,
   Value |-> JLit(getDefaultSidecar)]

\* The annotation mapping written by the "add" branch.
InjectedAnnotations ==
  Put(Put(Put(Put(EmptyFn, injectKey, sInjected),
                  prometheusScrapeKey, sTrue),
              prometheusPortKey, sEmpty),
          prometheusPathKey, sMetricsPath)

updateAnnotation(target) ==
  IF target.isNil \/ Get(target, injectKey) = sEmpty
  THEN [Op |-> "add",
        Path |-> AnnotationsPath,
        Value |-> MarshalMap(InjectedAnnotations)]
  ELSE [Op |-> "replace",
        Path |-> AnnotationsPath \o <<"/">> \o injectKey,
        Value |-> JStr(sInjected)]

\* The patch operations of createPatch, their values as json.Marshal writes
\* them.
createPatch(pod) == <<addSidecar, updateAnnotation(pod.Annotations)>>

\* mutationRequired with the status annotation never consulted.
mutationRequired_NoStatus(metadata) ==
  IF metadata.Annotations.isNil THEN FALSE
  ELSE ToLower(Get(metadata.Annotations, injectKey)) \in {sY, sYes, sTrue, sOn}

mutationRequired(metadata) ==
  LET annotations == metadata.Annotations IN
  IF annotations.isNil THEN FALSE
  ELSE LET status == Get(annotations, statusKey) IN
       IF ToLower(status) = sInjected
       THEN FALSE
       ELSE IF ToLower(Get(annotations, injectKey)) \in {sY, sYes, sTrue, sOn}
            THEN TRUE
            ELSE FALSE

(***************************************************************************)
(* The Pod as a JSON document (request.Object.Raw) and as the Go struct    *)
(* json.Unmarshal fills.                                                   *)
(***************************************************************************)
kKind == <<"k", "i", "n", "d">>
kAPIVersion == <<"a", "p", "i", "V", "e", "r", "s", "i", "o", "n">>
kMetadata == <<"m", "e", "t", "a", "d", "a", "t", "a">>
kAnnotations == <<"a", "n", "n", "o", "t", "a", "t", "i", "o", "n", "s">>
kLabels == <<"l", "a", "b", "e", "l", "s">>
kName == <<"n", "a", "m", "e">>
kNamespace == <<"n", "a", "m", "e", "s", "p", "a", "c", "e">>
kSpec == <<"s", "p", "e", "c">>
kContainers == <<"c", "o", "n", "t", "a", "i", "n", "e", "r", "s">>
kStatus == <<"s", "t", "a", "t", "u", "s">>

\* Other spellings of member names that json.Unmarshal matches to the fields.
kMetadataCap == <<"M", "e", "t", "a", "d", "a", "t", "a">>
kAnnotationsLongS == <<"A", "n", "n", "o", "t", "a", "t", "i", "o", "n", "U+017F">>

\* The document of a Pod with annotation mapping ann (nil: the field is
\* absent) and n containers of its own, members in the order of the fields.
PodDoc(ann, n) ==
  LET named == <<Member(kName, JStr(<<"a", "p", "p">>))>>
      meta == IF ann.isNil THEN named
              ELSE Append(named, Member(kAnnotations, MarshalMap(ann.m)))
      spec == <<Member(kContainers, JArr([i \in 1..n |-> JLit(<<"app">>)]))>>
  IN JObj(<<Member(kMetadata, JObj(meta)), Member(kSpec, JObj(spec))>>)

\* A Pod whose members are spelled "Metadata" and "Annotation" + long s.
RespelledPodDoc ==
  JObj(<<Member(kMetadataCap,
                JObj(<<Member(kAnnotationsLongS,
                              JObj(<<Member(injectKey, JStr(sYes))>>))>>))>>)

\* A Pod that spells metadata twice: "Metadata" holding the annotations, then
\* "metadata" holding the name.
TwiceMetadataPodDoc ==
  JObj(<<Member(kMetadataCap,
                JObj(<<Member(kAnnotations,
                              JObj(<<Member(injectKey, JStr(sYes))>>))>>)),
         Member(kMetadata, JObj(<<Member(kName, JStr(<<"x">>))>>))>>)

\* A Pod that spells annotations twice, the second time in capitals and with
\* the inject annotation.
TwiceAnnotationsPodDoc ==
  JObj(<<Member(kMetadata,
                JObj(<<Member(kAnnotations,
                              JObj(<<Member(teamKey, JStr(sPayments))>>)),
                       Member(<<"A", "N", "N", "O", "T", "A", "T", "I", "O", "N", "S">>,
                              JObj(<<Member(injectKey, JStr(sYes))>>))>>)),
         Member(kSpec, JObj(<<Member(kContainers, JArr(<<>>))>>))>>)

\* A Pod whose annotations member is null.
NullAnnotationsPodDoc ==
  JObj(<<Member(kMetadata, JObj(<<Member(kAnnotations, JNull)>>)),
         Member(kSpec, JObj(<<Member(kContainers, JArr(<<>>))>>))>>)

\* Documents that are valid JSON but no Pod: annotations is a number, spec is
\* a number, metadata.name is a number, status is a number, metadata.uid is
\* a number.
BadPodDoc ==
  JObj(<<Member(kMetadata, JObj(<<Member(kAnnotations, JNum(1))>>))>>)
BadSpecPodDoc == JObj(<<Member(kSpec, JNum(1))>>)
BadNamePodDoc == JObj(<<Member(kMetadata, JObj(<<Member(kName, JNum(1))>>))>>)
BadStatusPodDoc == JObj(<<Member(kStatus, JNum(1))>>)
BadUIDPodDoc ==
  JObj(<<Member(kMetadata, JObj(<<Member(<<"u", "i", "d">>, JNum(1))>>))>>)

\* The member of doc named exactly k (a JSON pointer token).  A reader that
\* parses an object into a map keeps, of the members of one name, the last.
Field(doc, k) ==
  IF doc.t = "obj" /\ \E i \in 1..Len(doc.ms) : doc.ms[i].k = k
  THEN doc.ms[CHOOSE i \in 1..Len(doc.ms) :
                /\ doc.ms[i].k = k
                /\ \A j \in (i + 1)..Len(doc.ms) : doc.ms[j].k # k].v
  ELSE Missing

\* Whether json.Unmarshal decodes the member named k into the struct field
\* named name: the names are equal, or equal under case folding.  No two
\* fields of a struct below have names equal under folding, so a member is
\* decoded into at most one field.
MatchesField(k, name) == FoldName(k) = FoldName(name)

(***************************************************************************)
(* The Go types of corev1.Pod, by what json.Unmarshal accepts for them.    *)
(*   TUnlisted:  a struct or map type whose fields are not listed here     *)
(*   TContainer: corev1.Container, likewise not listed                     *)
(*   TTime:      metav1.Time, which has its own UnmarshalJSON              *)
(*   TVersioned: a field that only some releases of k8s.io/api declare     *)
(***************************************************************************)
TString == [k |-> "string"]
TBool == [k |-> "bool"]
TInt == [k |-> "int"]
TStringMap == [k |-> "map"]
TTime == [k |-> "time"]
TContainer == [k |-> "container"]
TUnlisted == [k |-> "unlisted"]
TSlice(elem) == [k |-> "slice", elem |-> elem]
\* A struct type: its fields by their json names, held under the folded name
\* that json.Unmarshal's matching compares.
TStruct(fields) ==
  [k |-> "struct",
   fields |-> [f \in {FoldName(n) : n \in DOMAIN fields} |->
                 fields[CHOOSE n \in DOMAIN fields : FoldName(n) = f]]]
TVersioned(ty) == [k |-> "versioned", ty |-> ty]

ObjectMetaType ==
  TStruct(<<"n", "a", "m", "e">> :> TString @@
          <<"g", "e", "n", "e", "r", "a", "t", "e", "N", "a", "m", "e">> :> TString @@
          <<"n", "a", "m", "e", "s", "p", "a", "c", "e">> :> TString @@
          <<"s", "e", "l", "f", "L", "i", "n", "k">> :> TString @@
          <<"u", "i", "d">> :> TString @@
          <<"r", "e", "s", "o", "u", "r", "c", "e", "V", "e", "r", "s", "i", "o", "n">> :> TString @@
          <<"g", "e", "n", "e", "r", "a", "t", "i", "o", "n">> :> TInt @@
          <<"c", "r", "e", "a", "t", "i", "o", "n", "T", "i", "m", "e", "s", "t", "a", "m", "p">> :> TTime @@
          <<"d", "e", "l", "e", "t", "i", "o", "n", "T", "i", "m", "e", "s", "t", "a", "m", "p">> :> TTime @@
          <<"d", "e", "l", "e", "t", "i", "o", "n", "G", "r", "a", "c", "e", "P", "e", "r", "i", "o", "d", "S", "e", "c", "o", "n", "d", "s">> :> TInt @@
          <<"l", "a", "b", "e", "l", "s">> :> TStringMap @@
          <<"a", "n", "n", "o", "t", "a", "t", "i", "o", "n", "s">> :> TStringMap @@
          <<"o", "w", "n", "e", "r", "R", "e", "f", "e", "r", "e", "n", "c", "e", "s">> :> TSlice(TUnlisted) @@
          <<"f", "i", "n", "a", "l", "i", "z", "e", "r", "s">> :> TSlice(TString) @@
          <<"i", "n", "i", "t", "i", "a", "l", "i", "z", "e", "r", "s">> :> TVersioned(TUnlisted) @@
          <<"c", "l", "u", "s", "t", "e", "r", "N", "a", "m", "e">> :> TVersioned(TString) @@
          <<"m", "a", "n", "a", "g", "e", "d", "F", "i", "e", "l", "d", "s">> :> TVersioned(TSlice(TUnlisted)))
PodSpecType ==
  TStruct(<<"v", "o", "l", "u", "m", "e", "s">> :> TSlice(TUnlisted) @@
          <<"i", "n", "i", "t", "C", "o", "n", "t", "a", "i", "n", "e", "r", "s">> :> TSlice(TContainer) @@
          <<"c", "o", "n", "t", "a", "i", "n", "e", "r", "s">> :> TSlice(TContainer) @@
          <<"r", "e", "s", "t", "a", "r", "t", "P", "o", "l", "i", "c", "y">> :> TString @@
          <<"t", "e", "r", "m", "i", "n", "a", "t", "i", "o", "n", "G", "r", "a", "c", "e", "P", "e", "r", "i", "o", "d", "S", "e", "c", "o", "n", "d", "s">> :> TInt @@
          <<"a", "c", "t", "i", "v", "e", "D", "e", "a", "d", "l", "i", "n", "e", "S", "e", "c", "o", "n", "d", "s">> :> TInt @@
          <<"d", "n", "s", "P", "o", "l", "i", "c", "y">> :> TString @@
          <<"n", "o", "d", "e", "S", "e", "l", "e", "c", "t", "o", "r">> :> TStringMap @@
          <<"s", "e", "r", "v", "i", "c", "e", "A", "c", "c", "o", "u", "n", "t", "N", "a", "m", "e">> :> TString @@
          <<"s", "e", "r", "v", "i", "c", "e", "A", "c", "c", "o", "u", "n", "t">> :> TString @@
          <<"a", "u", "t", "o", "m", "o", "u", "n", "t", "S", "e", "r", "v", "i", "c", "e", "A", "c", "c", "o", "u", "n", "t", "T", "o", "k", "e", "n">> :> TBool @@
          <<"n", "o", "d", "e", "N", "a", "m", "e">> :> TString @@
          <<"h", "o", "s", "t", "N", "e", "t", "w", "o", "r", "k">> :> TBool @@
          <<"h", "o", "s", "t", "P", "I", "D">> :> TBool @@
          <<"h", "o", "s", "t", "I", "P", "C">> :> TBool @@
          <<"s", "e", "c", "u", "r", "i", "t", "y", "C", "o", "n", "t", "e", "x", "t">> :> TUnlisted @@
          <<"i", "m", "a", "g", "e", "P", "u", "l", "l", "S", "e", "c", "r", "e", "t", "s">> :> TSlice(TUnlisted) @@
          <<"h", "o", "s", "t", "n", "a", "m", "e">> :> TString @@
          <<"s", "u", "b", "d", "o", "m", "a", "i", "n">> :> TString @@
          <<"a", "f", "f", "i", "n", "i", "t", "y">> :> TUnlisted @@
          <<"s", "c", "h", "e", "d", "u", "l", "e", "r", "N", "a", "m", "e">> :> TString @@
          <<"t", "o", "l", "e", "r", "a", "t", "i", "o", "n", "s">> :> TSlice(TUnlisted) @@
          <<"h", "o", "s", "t", "A", "l", "i", "a", "s", "e", "s">> :> TSlice(TUnlisted) @@
          <<"p", "r", "i", "o", "r", "i", "t", "y", "C", "l", "a", "s", "s", "N", "a", "m", "e">> :> TVersioned(TString) @@
          <<"p", "r", "i", "o", "r", "i", "t", "y">> :> TVersioned(TInt) @@
          <<"s", "h", "a", "r", "e", "P", "r", "o", "c", "e", "s", "s", "N", "a", "m", "e", "s", "p", "a", "c", "e">> :> TVersioned(TBool) @@
          <<"d", "n", "s", "C", "o", "n", "f", "i", "g">> :> TVersioned(TUnlisted) @@
          <<"r", "e", "a", "d", "i", "n", "e", "s", "s", "G", "a", "t", "e", "s">> :> TVersioned(TSlice(TUnlisted)) @@
          <<"r", "u", "n", "t", "i", "m", "e", "C", "l", "a", "s", "s", "N", "a", "m", "e">> :> TVersioned(TString) @@
          <<"e", "n", "a", "b", "l", "e", "S", "e", "r", "v", "i", "c", "e", "L", "i", "n", "k", "s">> :> TVersioned(TBool) @@
          <<"p", "r", "e", "e", "m", "p", "t", "i", "o", "n", "P", "o", "l", "i", "c", "y">> :> TVersioned(TString) @@
          <<"o", "v", "e", "r", "h", "e", "a", "d">> :> TVersioned(TUnlisted) @@
          <<"t", "o", "p", "o", "l", "o", "g", "y", "S", "p", "r", "e", "a", "d", "C", "o", "n", "s", "t", "r", "a", "i", "n", "t", "s">> :> TVersioned(TSlice(TUnlisted)) @@
          <<"e", "p", "h", "e", "m", "e", "r", "a", "l", "C", "o", "n", "t", "a", "i", "n", "e", "r", "s">> :> TVersioned(TSlice(TUnlisted)) @@
          <<"s", "e", "t", "H", "o", "s", "t", "n", "a", "m", "e", "A", "s", "F", "Q", "D", "N">> :> TVersioned(TBool) @@
          <<"o", "s">> :> TVersioned(TUnlisted) @@
          <<"h", "o", "s", "t", "U", "s", "e", "r", "s">> :> TVersioned(TBool) @@
          <<"s", "c", "h", "e", "d", "u", "l", "i", "n", "g", "G", "a", "t", "e", "s">> :> TVersioned(TSlice(TUnlisted)) @@
          <<"r", "e", "s", "o", "u", "r", "c", "e", "C", "l", "a", "i", "m", "s">> :> TVersioned(TSlice(TUnlisted)) @@
          <<"r", "e", "s", "o", "u", "r", "c", "e", "s">> :> TVersioned(TUnlisted) @@
          <<"h", "o", "s", "t", "n", "a", "m", "e", "O", "v", "e", "r", "r", "i", "d", "e">> :> TVersioned(TString))
PodType ==
  TStruct(kKind :> TString @@ kAPIVersion :> TString
            @@ kMetadata :> ObjectMetaType @@ kSpec :> PodSpecType
            @@ kStatus :> TUnlisted)

\* Whether json.Unmarshal decodes doc into a value of type ty without error.
\* null is accepted everywhere; a value of another JSON type than the
\* field's is an error; of an object every member that matches a field is
\* decoded, and a member no field matches is skipped.  The operator has no
\* value where the answer lies in what the model does not list: an object
\* with members for an unlisted struct or for a listed type that is no
\* container, a string for a time, a value a versioned field would reject if
\* declared.
RECURSIVE Decodes(_, _)
Decodes(doc, ty) ==
  CASE doc.t = "null" -> TRUE
    [] doc.t # "null" /\ ty.k = "string" -> doc.t = "str"
    [] doc.t # "null" /\ ty.k = "bool" -> doc.t = "bool"
    [] doc.t # "null" /\ ty.k = "int" -> doc.t = "num"
    [] doc.t # "null" /\ ty.k = "time" /\ doc.t # "str" -> FALSE
    [] doc.t \notin {"null", "lit"} /\ ty.k = "map" ->
         /\ doc.t = "obj"
         /\ \A i \in 1..Len(doc.ms) : doc.ms[i].v.t \in {"str", "null"}
    [] doc.t # "null" /\ ty.k = "slice" ->
         /\ doc.t = "arr"
         /\ \A i \in 1..Len(doc.a) : Decodes(doc.a[i], ty.elem)
    [] doc.t \notin {"null", "lit"} /\ ty.k = "struct" ->
         /\ doc.t = "obj"
         /\ \A i \in 1..Len(doc.ms) :
              LET f == FoldName(doc.ms[i].k)
              IN f \in DOMAIN ty.fields => Decodes(doc.ms[i].v, ty.fields[f])
    [] doc.t = "lit" /\ ty.k = "container" -> TRUE
    [] doc.t \notin {"null", "lit", "obj"} /\ ty.k \in {"container", "unlisted"} -> FALSE
    [] doc.t = "obj" /\ ty.k \in {"container", "unlisted"} /\ doc.ms = <<>> -> TRUE
    [] doc.t # "null" /\ ty.k = "versioned" /\ Decodes(doc, ty.ty) -> TRUE

\* Decoding the members ms of an object, in order, into the Go map target:
\* each sets its key, a later member of the same name overwriting.
RECURSIVE MergeMembers(_, _)
MergeMembers(target, ms) ==
  IF ms = <<>> THEN target
  ELSE LET h == Head(ms)
           s == IF h.v.t = "str" THEN h.v.s ELSE sEmpty
       IN MergeMembers(MapOf(Put(target.m, h.k, s)), Tail(ms))

\* json.Unmarshal of doc into a map[string]string holding target: null makes
\* the map nil, an object is decoded into the map there is, or into a new one
\* when it is nil.
DecodeStringMap(target, doc) ==
  IF doc.t = "null" THEN NilMap
  ELSE IF doc.t = "obj"
  THEN MergeMembers(IF target.isNil THEN MapOf(EmptyFn) ELSE target, doc.ms)
  ELSE target

\* json.Unmarshal of the members ms, in order, into an ObjectMeta whose
\* Annotations are target: every member matching annotations is decoded into
\* the field, into what the earlier ones left.
RECURSIVE DecodeObjectMeta(_, _)
DecodeObjectMeta(target, ms) ==
  IF ms = <<>> THEN target
  ELSE DecodeObjectMeta(IF MatchesField(Head(ms).k, kAnnotations)
                        THEN DecodeStringMap(target, Head(ms).v)
                        ELSE target,
                        Tail(ms))

\* json.Unmarshal of the members ms, in order, into a Pod whose Annotations
\* are target: every member matching metadata that is an object is decoded
\* into pod.ObjectMeta; null leaves the struct as it is.
RECURSIVE DecodePod(_, _)
DecodePod(target, ms) ==
  IF ms = <<>> THEN target
  ELSE DecodePod(IF MatchesField(Head(ms).k, kMetadata) /\ Head(ms).v.t = "obj"
                 THEN DecodeObjectMeta(target, Head(ms).v.ms)
                 ELSE target,
                 Tail(ms))

\* json.Unmarshal(request.Object.Raw, &pod): the error, and the field of pod
\* the webhook reads.  Empty Raw is an error; a missing or null member leaves
\* the zero value.
UnmarshalPod(raw) ==
  IF raw.t = "missing" \/ ~Decodes(raw, PodType)
  THEN [err |-> TRUE, pod |-> [Annotations |-> NilMap]]
  ELSE [err |-> FALSE,
        pod |-> [Annotations |->
                   IF raw.t = "obj" THEN DecodePod(NilMap, raw.ms) ELSE NilMap]]

(***************************************************************************)
(* JSON Patch (RFC 6902) with JSON Pointer paths (RFC 6901), as the API    *)
(* server applies the patch the webhook returns.  A pointer is a sequence  *)
(* of segments each introduced by "/"; in a segment "~1" stands for "/"    *)
(* and "~0" for "~".                                                       *)
(***************************************************************************)
SegmentLen(s) ==
  IF \E i \in 1..Len(s) : s[i] = "/"
  THEN (CHOOSE i \in 1..Len(s) : s[i] = "/" /\ \A j \in 1..(i - 1) : s[j] # "/") - 1
  ELSE Len(s)

Unescape(seg) ==
  [i \in 1..Len(seg) |->
     IF seg[i] = "~1" THEN "/" ELSE IF seg[i] = "~0" THEN "~" ELSE seg[i]]

RECURSIVE PointerSegments(_)
PointerSegments(path) ==
  IF path = <<>> THEN <<>>
  ELSE LET rest == Tail(path)
           n == SegmentLen(rest)
       IN <<Unescape(SubSeq(rest, 1, n))>>
            \o PointerSegments(SubSeq(rest, n + 1, Len(rest)))

ArrayIndexes == <<"0", "1", "2", "3", "4", "5", "6", "7">>

\* The member of doc that segment k addresses, or Missing.
Child(doc, k) ==
  IF doc.t = "obj" THEN Field(doc, k)
  ELSE IF doc.t = "arr" /\ Len(k) = 1
          /\ \E i \in 1..Len(doc.a) : i <= Len(ArrayIndexes) /\ ArrayIndexes[i] = k[1]
       THEN doc.a[CHOOSE i \in 1..Len(doc.a) : ArrayIndexes[i] = k[1]]
       ELSE Missing

RECURSIVE Resolve(_, _)
Resolve(doc, segs) ==
  IF segs = <<>> THEN doc
  ELSE LET c == Child(doc, Head(segs)) IN
       IF c.t = "missing" THEN Missing ELSE Resolve(c, Tail(segs))

PatchFailed(doc) == [ok |-> FALSE, doc |-> doc]

\* The order of two spellings of one name in the order of their bytes: a
\* capital before its small letter, and both before the long s and the
\* Kelvin sign.
CaseRank(c) ==
  IF c \in DOMAIN UpperToLower THEN 1
  ELSE IF c \in {"U+017F", "U+212A"} THEN 3
  ELSE 2

NameLess(a, b) ==
  /\ FoldName(a) = FoldName(b)
  /\ a # b
  /\ LET i == CHOOSE n \in 1..Len(a) :
                 a[n] # b[n] /\ \A j \in 1..(n - 1) : a[j] = b[j]
     IN CaseRank(a[i]) < CaseRank(b[i])

\* names with n added: next to the other spellings of n, in the order of
\* their bytes, or at the end when there is none.
InsertName(names, n) ==
  LET same == {i \in 1..Len(names) : FoldName(names[i]) = FoldName(n)}
      before == {i \in same : NameLess(names[i], n)}
      p == IF before # {} THEN CHOOSE i \in before : \A j \in before : j <= i
           ELSE (CHOOSE i \in same : \A j \in same : i <= j) - 1
  IN IF same = {} THEN Append(names, n)
     ELSE SubSeq(names, 1, p) \o <<n>> \o SubSeq(names, p + 1, Len(names))

\* The names of the members ms, each once.
RECURSIVE MemberNames(_, _)
MemberNames(names, ms) ==
  IF ms = <<>> THEN names
  ELSE MemberNames(IF \E i \in 1..Len(names) : names[i] = Head(ms).k
                   THEN names
                   ELSE InsertName(names, Head(ms).k),
                   Tail(ms))

\* An object the patch has gone through, as it is written again: it was
\* parsed into a map, which keeps one member of a name, the last, and the
\* map is written with its keys in the order of their bytes.  The spellings
\* of one name are written in that order; names that differ otherwise decode
\* into different fields or keys, and are left in the order they had.
Remarshal(doc) ==
  LET names == MemberNames(<<>>, doc.ms)
  IN JObj([i \in 1..Len(names) |-> Member(names[i], Field(doc, names[i]))])

\* doc with member k set to v, k being a member name or an array position.
WithChild(doc, k, v) ==
  IF doc.t = "obj" THEN Remarshal(JObj(Append(doc.ms, Member(k, v))))
  ELSE JArr([i \in 1..Len(doc.a) |-> IF ArrayIndexes[i] = k[1] THEN v ELSE doc.a[i]])

\* "add" and "replace" at the location segs of doc.
RECURSIVE SetAt(_, _, _, _)
SetAt(doc, segs, val, op) ==
  IF segs = <<>> THEN [ok |-> TRUE, doc |-> val]
  ELSE LET k == Head(segs)
           c == Child(doc, k)
       IN IF Len(segs) = 1
          THEN IF doc.t = "obj"
               THEN IF op = "replace" /\ c.t = "missing"
                    THEN PatchFailed(doc)
                    ELSE [ok |-> TRUE, doc |-> WithChild(doc, k, val)]
               ELSE IF doc.t = "arr"
               THEN IF k = <<"-">>
                    THEN IF op = "add"
                         THEN [ok |-> TRUE, doc |-> JArr(Append(doc.a, val))]
                         ELSE PatchFailed(doc)
                    ELSE IF /\ op = "add"
                            /\ Len(k) = 1
                            /\ Len(doc.a) < Len(ArrayIndexes)
                            /\ ArrayIndexes[Len(doc.a) + 1] = k[1]
                    THEN [ok |-> TRUE, doc |-> JArr(Append(doc.a, val))]
                    ELSE IF c.t = "missing"
                    THEN PatchFailed(doc)
                    ELSE IF op = "replace"
                    THEN [ok |-> TRUE, doc |-> WithChild(doc, k, val)]
                    ELSE LET i == CHOOSE j \in 1..Len(doc.a) : ArrayIndexes[j] = k[1]
                         IN [ok |-> TRUE,
                             doc |-> JArr(SubSeq(doc.a, 1, i - 1) \o <<val>>
                                            \o SubSeq(doc.a, i, Len(doc.a)))]
               ELSE PatchFailed(doc)
          ELSE IF c.t = "missing"
               THEN PatchFailed(doc)
               ELSE LET r == SetAt(c, Tail(segs), val, op) IN
                    IF r.ok THEN [ok |-> TRUE, doc |-> WithChild(doc, k, r.doc)]
                    ELSE PatchFailed(doc)

ApplyOp(doc, operation) ==
  SetAt(doc, PointerSegments(operation.Path), operation.Value, operation.Op)

\* The whole patch, in order; one failing operation fails the patch and
\* leaves the document as it was.
RECURSIVE ApplyFrom(_, _, _)
ApplyFrom(orig, doc, ops) ==
  IF ops = <<>> THEN [ok |-> TRUE, doc |-> doc]
  ELSE LET r == ApplyOp(doc, Head(ops)) IN
       IF r.ok THEN ApplyFrom(orig, r.doc, Tail(ops)) ELSE PatchFailed(orig)

ApplyPatch(doc, ops) == ApplyFrom(doc, doc, ops)

(***************************************************************************)
(* The inputs: HTTP requests.                                              *)
(***************************************************************************)
StatusValues ==
  {sEmpty, sInjected, sInjectedCap, sInjectedUpper, sInjectedDotted, sNo}
InjectValues ==
  {sEmpty, sY, sYes, sYesUpper, sTrue, sTrueCap, sOn, sFalse, sInjected}
TeamValues == {sPayments}
AnnotationKeys == {statusKey, injectKey, teamKey}

AnnotationMaps ==
  {NilMap} \cup
  {MapOf(f) : f \in
     UNION {{g \in [D -> StatusValues \cup InjectValues \cup TeamValues] :
               /\ statusKey \in D => g[statusKey] \in StatusValues
               /\ injectKey \in D => g[injectKey] \in InjectValues
               /\ teamKey \in D => g[teamKey] \in TeamValues}
            : D \in SUBSET AnnotationKeys}}

\* request.Object.Raw: a Pod, a JSON document that is no Pod, or nothing.
Objects ==
  {PodDoc(ann, n) : ann \in AnnotationMaps, n \in 0..MaxContainers}
    \cup {RespelledPodDoc, TwiceMetadataPodDoc, TwiceAnnotationsPodDoc,
          NullAnnotationsPodDoc, BadPodDoc, BadSpecPodDoc, BadNamePodDoc,
          BadStatusPodDoc, BadUIDPodDoc, Missing}

UIDs == {"uid-1", "uid-2"}

\* The bytes of a body, by what the deserializer makes of them.  It reads
\* JSON and, when the bytes are not JSON, YAML.
\*   empty:          no bytes
\*   malformed:      not JSON, and not YAML that decodes
\*   yaml-norequest: not JSON; YAML that decodes, without a request ("a: 1")
\*   yaml-review:    not JSON; YAML that decodes, with a request
\*   yaml-partial:   not JSON; YAML whose request field decodes and a later
\*                   field does not ("request: {uid: uid-1}" and "response: 5")
\*   nonenvelope:    JSON that does not decode into an AdmissionReview
\*   partial:        JSON whose request field decodes and a later field does not
\*   norequest:      a JSON object without a request field
\*   review:         an AdmissionReview with a request
NoBytes == [shape |-> "empty", uid |-> "", object |-> Missing]
NotJSON == {"malformed", "yaml-norequest", "yaml-review", "yaml-partial"}
Payloads ==
  {[shape |-> sh, uid |-> "", object |-> Missing] :
     sh \in {"malformed", "yaml-norequest", "nonenvelope", "norequest"}}
    \cup {[shape |-> sh, uid |-> u, object |-> Missing] :
            sh \in {"partial", "yaml-partial"}, u \in UIDs}
    \cup {[shape |-> sh, uid |-> u, object |-> o] :
            sh \in {"review", "yaml-review"}, u \in UIDs, o \in Objects}

ContentTypes == {"application/json", "application/json; charset=utf-8", "text/plain", ""}

\* request.Body is nil, or a stream whose read fails or yields its data.
Bodies ==
  {[isNil |-> TRUE, readErr |-> FALSE, data |-> NoBytes],
   [isNil |-> FALSE, readErr |-> FALSE, data |-> NoBytes]}
    \cup {[isNil |-> FALSE, readErr |-> FALSE, data |-> d] : d \in Payloads}
    \cup {[isNil |-> FALSE, readErr |-> TRUE, data |-> d] :
            d \in {x \in Payloads : x.shape \in {"malformed", "norequest"}}}

Requests == {[Body |-> b, ContentType |-> c] : b \in Bodies, c \in ContentTypes}

(***************************************************************************)
(* The steps of serve and mutate as functions of their inputs.             *)
(***************************************************************************)
\* serve, reading the body: a nil body or a failed read leaves body empty.
ReadBody(request) ==
  IF ~request.Body.isNil /\ ~request.Body.readErr THEN request.Body.data ELSE NoBytes

\* validateBody with the Content-Type check taken before the empty-body check.
validateBody_TypeFirst(body, contentType) ==
  IF contentType # "application/json" THEN StatusUnsupportedMediaType
  ELSE IF body.shape = "empty" THEN StatusBadRequest
  ELSE StatusOK

\* validateBody without the Content-Type check.
validateBody_AnyType(body, contentType) ==
  IF body.shape = "empty" THEN StatusBadRequest ELSE StatusOK

\* serve, the two checks before decoding: the status of the early return, or
\* StatusOK to go on.
validateBody(body, contentType) ==
  IF body.shape = "empty" THEN StatusBadRequest
  ELSE IF contentType # "application/json" THEN StatusUnsupportedMediaType
  ELSE StatusOK

NilRequest == [isNil |-> TRUE, UID |-> "", Object |-> Missing]

\* deserializer.Decode(body, nil, &ar): the error and what ar.Request holds.
Decode(body) ==
  [err |-> body.shape \in {"malformed", "nonenvelope", "partial", "yaml-partial"},
   Request |-> IF body.shape \in {"partial", "yaml-partial", "review", "yaml-review"}
               THEN [isNil |-> FALSE, UID |-> body.uid, Object |-> body.object]
               ELSE NilRequest]

NoPatch == <<>>
NilResponse ==
  [isNil |-> TRUE, UID |-> "", Allowed |-> FALSE, hasResult |-> FALSE,
   Message |-> "", Patch |-> NoPatch, PatchType |-> ""]

\* &AdmissionResponse{Result: &metav1.Status{Message: err.Error()}}
ErrorResponse(message) ==
  [NilResponse EXCEPT !.isNil = FALSE, !.hasResult = TRUE, !.Message = message]

\* policyResponse with the skip branch leaving Allowed unset.
policyResponse_SkipDenied(p, marshalFails) ==
  IF ~mutationRequired(p)
  THEN [NilResponse EXCEPT !.isNil = FALSE]
  ELSE IF marshalFails
  THEN ErrorResponse("json: error calling MarshalJSON")
  ELSE [NilResponse EXCEPT !.isNil = FALSE, !.Allowed = TRUE,
                           !.Patch = createPatch(p), !.PatchType = "JSONPatch"]

\* mutate after the Pod is unmarshalled: the policy check and the patch.
\* marshalFails: json.Marshal of the patch returns an error.
policyResponse(p, marshalFails) ==
  IF ~mutationRequired(p)
  THEN [NilResponse EXCEPT !.isNil = FALSE, !.Allowed = TRUE]
  ELSE IF marshalFails
  THEN ErrorResponse("json: error calling MarshalJSON")
  ELSE [NilResponse EXCEPT !.isNil = FALSE, !.Allowed = TRUE,
                           !.Patch = createPatch(p), !.PatchType = "JSONPatch"]

\* setUID copying the UID only into responses that allow the Pod.
setUID_AllowedOnly(response, review) ==
  IF ~response.isNil /\ ~review.Request.isNil /\ response.Allowed
  THEN [response EXCEPT !.UID = review.Request.UID]
  ELSE response

\* serve, building the outgoing review: the response with the request's UID.
setUID(response, review) ==
  IF ~response.isNil /\ ~review.Request.isNil
  THEN [response EXCEPT !.UID = review.Request.UID]
  ELSE response

\* json.Marshal(admissionReview): the envelope as the caller parses it.  An
\* unset result and an empty patch are omitted.
MarshalReview(response) ==
  [kind |-> "review",
   hasResponse |-> ~response.isNil,
   uid |-> response.UID,
   allowed |-> response.Allowed,
   hasResult |-> response.hasResult,
   message |-> response.Message,
   hasPatch |-> response.Patch # NoPatch,
   patch |-> response.Patch,
   patchType |-> response.PatchType]

NilBytes == [kind |-> "none"]
Text(msg) == [kind |-> "text", text |-> msg]

(***************************************************************************)
(* http.ResponseWriter: the statuses and the bodies it receives, in order. *)
(***************************************************************************)
NewWriter == [statuses |-> <<>>, bodies |-> <<>>]

WriteHeader(w, code) == [w EXCEPT !.statuses = Append(@, code)]

\* Write sends the status 200 first when no status was sent.
Write(w, data) ==
  [statuses |-> IF w.statuses = <<>> THEN <<StatusOK>> ELSE w.statuses,
   bodies |-> Append(w.bodies, data)]

\* http.Error(w, msg, code)
httpError(w, msg, code) == Write(WriteHeader(w, code), Text(msg))

(***************************************************************************)
(* The state.                                                              *)
(***************************************************************************)
VARIABLES
  pc,                 \* where serve is; Responded and Panicked are final
  request,            \* the HTTP request being served
  body,               \* serve's body
  ar,                 \* serve's ar: the decoded AdmissionReview
  pod,                \* mutate's pod
  admissionResponse,  \* serve's admissionResponse
  resp,               \* serve's resp: the encoded review
  writer,             \* what the response writer has received
  invoked,            \* the domain functions called for this request
  required,           \* the results of mutationRequired for this request
  faults,             \* the failures of json.Marshal and Write met
  resubmits           \* how often the API server has resubmitted

vars == <<pc, request, body, ar, pod, admissionResponse, resp, writer, invoked,
          required, faults, resubmits>>

NoPod == [Annotations |-> NilMap]
NoReview == [Request |-> NilRequest]

\* serve is entered with request r.
Enter(r) ==
  /\ pc' = "Received"
  /\ request' = r
  /\ body' = NoBytes
  /\ ar' = NoReview
  /\ pod' = NoPod
  /\ admissionResponse' = NilResponse
  /\ resp' = NilBytes
  /\ writer' = NewWriter
  /\ invoked' = {}
  /\ required' = <<>>
  /\ faults' = {}

Init ==
  /\ pc = "Received"
  /\ request \in Requests
  /\ body = NoBytes
  /\ ar = NoReview
  /\ pod = NoPod
  /\ admissionResponse = NilResponse
  /\ resp = NilBytes
  /\ writer = NewWriter
  /\ invoked = {}
  /\ required = <<>>
  /\ faults = {}
  /\ resubmits = 0

\* serve up to the decoding: the body is read and the two early returns are
\* taken or passed.
ValidateBody ==
  /\ pc = "Received"
  /\ LET b == ReadBody(request)
         code == validateBody(b, request.ContentType)
     IN /\ body' = b
        /\ IF code = StatusBadRequest
           THEN /\ writer' = httpError(writer, "empty body", StatusBadRequest)
                /\ pc' = "Responded"
           ELSE IF code = StatusUnsupportedMediaType
           THEN /\ writer' = httpError(writer,
                                "invalid Content-Type, expected application/json",
                                StatusUnsupportedMediaType)
                /\ pc' = "Responded"
           ELSE /\ writer' = writer
                /\ pc' = "BodyValidated"
  /\ UNCHANGED <<request, ar, pod, admissionResponse, resp, invoked, required,
                 faults, resubmits>>

\* serve decoding the body: an error becomes the response, success enters
\* mutate.
DecodeReview ==
  /\ pc = "BodyValidated"
  /\ LET d == Decode(body) IN
       /\ ar' = [Request |-> d.Request]
       /\ IF d.err
          THEN /\ admissionResponse' = ErrorResponse("couldn't get version/kind; json parse error")
               /\ pc' = "Evaluated"
          ELSE /\ admissionResponse' = admissionResponse
               /\ pc' = "Decoded"
  /\ invoked' = invoked \cup {"Decode"}
  /\ UNCHANGED <<request, body, pod, resp, writer, required, faults, resubmits>>

\* mutate unmarshalling the Pod.  request.Object of a nil ar.Request is a nil
\* pointer dereference: the handler panics, and the HTTP server recovers the
\* panic by dropping the connection without a response.
MutateUnmarshal ==
  /\ pc = "Decoded"
  /\ invoked' = invoked \cup {"mutate"}
  /\ IF ar.Request.isNil
     THEN /\ pc' = "Panicked"
          /\ UNCHANGED <<pod, admissionResponse>>
     ELSE LET u == UnmarshalPod(ar.Request.Object) IN
          IF u.err
          THEN /\ admissionResponse' = ErrorResponse("json: cannot unmarshal")
               /\ pc' = "Evaluated"
               /\ pod' = pod
          ELSE /\ pod' = u.pod
               /\ pc' = "PodDecoded"
               /\ admissionResponse' = admissionResponse
  /\ UNCHANGED <<request, body, ar, resp, writer, required, faults, resubmits>>

\* mutate from the policy check to its return.
MutatePolicy ==
  /\ pc = "PodDecoded"
  /\ \E marshalFails \in BOOLEAN :
       /\ admissionResponse' = policyResponse(pod, marshalFails)
       /\ faults' = IF mutationRequired(pod) /\ marshalFails
                    THEN faults \cup {"patch"} ELSE faults
  /\ required' = Append(required, mutationRequired(pod))
  /\ invoked' = invoked \cup {"mutationRequired"}
                  \cup (IF mutationRequired(pod) THEN {"createPatch"} ELSE {})
  /\ pc' = "Evaluated"
  /\ UNCHANGED <<request, body, ar, pod, resp, writer, resubmits>>

\* serve building and encoding the outgoing review.  admissionReview.Response
\* is the pointer admissionResponse, so the UID is set in admissionResponse
\* itself.  After a failed json.Marshal the handler reports the error and
\* does not return: resp is nil and serve goes on to write it.
EncodeReview ==
  /\ pc = "Evaluated"
  /\ admissionResponse' = setUID(admissionResponse, ar)
  /\ \E marshalFails \in BOOLEAN :
       IF marshalFails
       THEN /\ resp' = NilBytes
            /\ writer' = httpError(writer, "could not encode response",
                                   StatusInternalServerError)
            /\ faults' = faults \cup {"encode"}
       ELSE /\ resp' = MarshalReview(admissionResponse')
            /\ writer' = writer
            /\ faults' = faults
  /\ pc' = "Encoded"
  /\ UNCHANGED <<request, body, ar, pod, invoked, required, resubmits>>

\* serve writing resp; a failed Write is reported with http.Error.
WriteResponse ==
  /\ pc = "Encoded"
  /\ \E writeFails \in BOOLEAN :
       IF writeFails
       THEN /\ writer' = httpError(Write(writer, resp), "could not write response",
                                   StatusInternalServerError)
            /\ faults' = faults \cup {"write"}
       ELSE /\ writer' = Write(writer, resp)
            /\ faults' = faults
  /\ pc' = "Responded"
  /\ UNCHANGED <<request, body, ar, pod, admissionResponse, resp, invoked,
                 required, resubmits>>

(***************************************************************************)
(* The API server.  It reads the first response the writer received; when  *)
(* that is a review that allows the Pod and carries a patch, it applies    *)
(* the patch.  The object, patched or as it was, may be submitted again.   *)
(***************************************************************************)
Answer(w) ==
  IF w.bodies # <<>> /\ w.statuses[1] = StatusOK /\ w.bodies[1].kind = "review"
  THEN w.bodies[1]
  ELSE NilBytes

Admitted(object, w) ==
  LET a == Answer(w) IN
  IF a.kind = "review" /\ a.allowed /\ a.hasPatch
  THEN ApplyPatch(object, a.patch).doc
  ELSE object

Resubmit ==
  /\ pc \in {"Responded", "Panicked"}
  /\ resubmits < MaxResubmits
  /\ resubmits' = resubmits + 1
  /\ Enter([request EXCEPT !.Body.data.object =
                             Admitted(request.Body.data.object, writer)])

Next ==
  \/ ValidateBody
  \/ DecodeReview
  \/ MutateUnmarshal
  \/ MutatePolicy
  \/ EncodeReview
  \/ WriteResponse
  \/ Resubmit

Spec == Init /\ [][Next]_vars

(***************************************************************************)
(* Properties.                                                             *)
(***************************************************************************)
Done == pc \in {"Responded", "Panicked"}

\* The body as serve read it, and what decoding it gives.
BodyRead == ReadBody(request)
Decoded == Decode(BodyRead)
EnvelopeDecoded == BodyRead.shape # "empty" /\ ~Decoded.err
IsJSON == request.ContentType = "application/json"

\* The reviews among the bodies the writer received.
ReviewsWritten ==
  {writer.bodies[i] : i \in {j \in 1..Len(writer.bodies) : writer.bodies[j].kind = "review"}}

\* The status of the HTTP response: the first one the writer received.
FirstStatus == IF writer.statuses = <<>> THEN 0 ELSE writer.statuses[1]

\* C1 as stated: every admission response for a request whose envelope decoded
\* has allowed true (skip branch, mutation branch, failed patch serialization),
\* and allowed is false only after a decode failure.
C1_AllowedUnlessDecodeFails ==
  (pc \in {"Evaluated", "Encoded", "Responded"} /\ IsJSON /\ BodyRead.shape # "empty")
    => (admissionResponse.Allowed <=> ~Decoded.err)

\* C1 amended: for a request whose envelope decoded, allowed is true exactly on
\* the skip branch and the mutation branch, where the response carries no
\* result; when the Pod fails to unmarshal or the patch fails to serialize the
\* response carries result.message and allowed is false, as after a decode
\* failure.  The review written carries the same verdict.
C1_AllowedIffNoError ==
  (pc \in {"Evaluated", "Encoded", "Responded"} /\ IsJSON /\ BodyRead.shape # "empty")
    => /\ admissionResponse.Allowed
            <=> /\ ~Decoded.err
                /\ ~UnmarshalPod(Decoded.Request.Object).err
                /\ "patch" \notin faults
       /\ admissionResponse.Allowed <=> ~admissionResponse.hasResult
       /\ admissionResponse.hasResult => admissionResponse.Message # ""
       /\ \A r \in ReviewsWritten : r.allowed = admissionResponse.Allowed

\* C1 witness: the envelope decoded, the Pod did not unmarshal, and the review
\* written has allowed false.
C1_Witness ==
  /\ pc = "Responded"
  /\ EnvelopeDecoded
  /\ UnmarshalPod(Decoded.Request.Object).err
  /\ \E r \in ReviewsWritten : ~r.allowed /\ r.hasResult

\* C2 as stated: every invocation of serve ends in Responded with exactly one
\* status and one body received by the response writer.
C2_ExactlyOneResponse ==
  Done => /\ pc = "Responded"
          /\ Len(writer.statuses) = 1
          /\ Len(writer.bodies) = 1

\* The Pod document is written as the API server serialises a Pod: metadata
\* and annotations are spelled as the fields are, each once, so that what
\* json.Unmarshal reads is what the JSON pointers address.
SpelledOnce(doc, name) ==
  /\ doc.t = "obj"
  /\ \A i \in 1..Len(doc.ms) : MatchesField(doc.ms[i].k, name) => doc.ms[i].k = name
  /\ Cardinality({i \in 1..Len(doc.ms) : doc.ms[i].k = name}) <= 1

Canonical(doc) ==
  /\ SpelledOnce(doc, kMetadata)
  /\ SpelledOnce(Field(doc, kMetadata), kAnnotations)
  /\ Field(Field(doc, kSpec), kContainers).t = "arr"

\* The containers of a canonical Pod document.
ContainersOf(doc) == Field(Field(doc, kSpec), kContainers).a

\* The handler has emitted a patch for a canonical Pod document.
PatchEmitted ==
  /\ pc = "Evaluated"
  /\ admissionResponse.Patch # NoPatch
  /\ Canonical(ar.Request.Object)

\* C3 as stated: every operation of an emitted patch has a path that, read as
\* a JSON pointer, is the append path or addresses an existing location of the
\* Pod (replace) or a location whose parent exists (add).
ValidPointer(doc, operation) ==
  LET segs == PointerSegments(operation.Path) IN
  \/ operation.Path = AppendPath
  \/ operation.Op = "replace" /\ Resolve(doc, segs).t # "missing"
  \/ /\ operation.Op = "add"
     /\ segs # <<>>
     /\ Resolve(doc, SubSeq(segs, 1, Len(segs) - 1)).t # "missing"

C3_PatchPathsValid ==
  PatchEmitted
    => \A i \in 1..Len(admissionResponse.Patch) :
         ValidPointer(ar.Request.Object, admissionResponse.Patch[i])

\* C4: every review serve writes carries the UID of the decoded request, on
\* every branch of mutate and after a decode failure; the UID is empty only
\* when no request was decoded.
C4_ResponseUID ==
  \A r \in ReviewsWritten \cup (IF pc = "Encoded" /\ resp.kind = "review" THEN {resp} ELSE {}) :
    /\ r.hasResponse
    /\ r.uid = IF Decoded.Request.isNil THEN "" ELSE BodyRead.uid
    /\ pc \in {"Encoded", "Responded"} => admissionResponse.UID = r.uid
    /\ r.uid = "" <=> Decoded.Request.isNil

\* C4 witness: a review reporting a Pod that did not unmarshal was written with
\* the request's UID.
C4_Witness ==
  /\ pc = "Responded"
  /\ EnvelopeDecoded
  /\ \E r \in ReviewsWritten : r.hasResult /\ r.uid = "uid-2" /\ BodyRead.uid = "uid-2"

\* The spellings, among the values submitted, of "injected" and of the tokens
\* y, yes, true, on.
InjectedSpellings == {sInjected, sInjectedCap, sInjectedUpper, sInjectedDotted}
TruthySpellings == {sY, sYes, sYesUpper, sTrue, sTrueCap, sOn}

\* C5: mutationRequired is true if and only if the annotation mapping is
\* present, the status annotation is not a spelling of "injected" and the
\* inject annotation is a spelling of y, yes, true or on.
C5_MutationRequiredIff ==
  required # <<>> =>
    LET submitted == UnmarshalPod(BodyRead.object).pod.Annotations IN
    /\ Len(required) = 1
    /\ required[1] <=>
         /\ ~submitted.isNil
         /\ Get(submitted, statusKey) \notin InjectedSpellings
         /\ Get(submitted, injectKey) \in TruthySpellings

\* C5 witness: the policy was evaluated to true on an upper-case token, the
\* status annotation being present and not "injected".
C5_Witness ==
  /\ required = <<TRUE>>
  /\ Get(pod.Annotations, injectKey) = sYesUpper
  /\ Get(pod.Annotations, statusKey) = sNo

\* C6 as stated: applying the emitted patch to a Pod for which mutation is
\* required gives a Pod for which it is not.
C6_PatchedPodNotMutatedAgain ==
  (PatchEmitted /\ required = <<TRUE>>)
    => LET r == ApplyPatch(ar.Request.Object, admissionResponse.Patch) IN
       /\ r.ok
       /\ ~UnmarshalPod(r.doc).err
       /\ ~mutationRequired(UnmarshalPod(r.doc).pod)

NonEmptyMalformed == BodyRead.shape \in NotJSON

\* C7 as stated: a non-empty body that is malformed JSON is answered with
\* HTTP 400 and no review.  Stated for requests sent as application/json,
\* which the Content-Type check lets through.
C7_MalformedIs400 ==
  (pc = "Responded" /\ NonEmptyMalformed /\ IsJSON)
    => FirstStatus = StatusBadRequest /\ ReviewsWritten = {}

\* C7 amended: a non-empty body that is malformed JSON is never answered with
\* HTTP 400.  With a Content-Type other than application/json it is answered
\* with HTTP 415 and no review.  With application/json, when the deserializer
\* fails to decode it, it is answered with HTTP 200 and a review whose
\* result.message is the decode error, with allowed false and no patch (HTTP
\* 500 and no review when encoding the review fails).
C7_MalformedIsDecodeError ==
  (Done /\ NonEmptyMalformed)
    => /\ StatusBadRequest \notin {writer.statuses[i] : i \in 1..Len(writer.statuses)}
       /\ ~IsJSON => /\ pc = "Responded"
                     /\ FirstStatus = StatusUnsupportedMediaType
                     /\ ReviewsWritten = {}
       /\ (IsJSON /\ Decoded.err)
            => /\ pc = "Responded"
               /\ "encode" \in faults
                    => FirstStatus = StatusInternalServerError /\ ReviewsWritten = {}
               /\ "encode" \notin faults
                    => /\ FirstStatus = StatusOK
                       /\ writer.bodies[1].kind = "review"
                       /\ writer.bodies[1].hasResult
                       /\ writer.bodies[1].message # ""
                       /\ ~writer.bodies[1].allowed
                       /\ ~writer.bodies[1].hasPatch

\* C7 witness: bytes that neither the JSON nor the YAML reader decodes, sent
\* as application/json, were answered with HTTP 200 and a review carrying a
\* message.
C7_Witness ==
  /\ pc = "Responded"
  /\ BodyRead.shape = "malformed"
  /\ IsJSON
  /\ FirstStatus = StatusOK
  /\ \E r \in ReviewsWritten : r.hasResult /\ r.message # ""

\* C8 as stated: a body sent as application/json that is valid JSON but no
\* valid admission review, a JSON object without a request field included, is
\* answered with HTTP 200 and a review with a non-empty result.message and no
\* patch.
C8_NonEnvelopeIsReported ==
  (Done /\ IsJSON /\ BodyRead.shape \in {"nonenvelope", "partial", "norequest"})
    => /\ pc = "Responded"
       /\ FirstStatus = StatusOK
       /\ writer.bodies[1].kind = "review"
       /\ writer.bodies[1].hasResult
       /\ writer.bodies[1].message # ""
       /\ ~writer.bodies[1].hasPatch

\* C9: when no body bytes were read the answer is HTTP 400, and when bytes
\* were read and the Content-Type is not exactly application/json it is HTTP
\* 415; in both cases nothing is decoded, neither mutationRequired nor
\* createPatch is called and no review is written; the empty-body check is
\* taken first.
C9_ValidationFirst ==
  (BodyRead.shape = "empty" \/ ~IsJSON)
    => /\ pc \in {"Received", "Responded"}
       /\ invoked = {}
       /\ required = <<>>
       /\ pc = "Responded"
            => /\ writer.statuses =
                    <<IF BodyRead.shape = "empty" THEN StatusBadRequest
                      ELSE StatusUnsupportedMediaType>>
               /\ Len(writer.bodies) = 1
               /\ writer.bodies[1].kind = "text"

\* C9 witness: a request whose read failed and whose Content-Type is wrong was
\* answered with HTTP 400.
C9_Witness ==
  /\ pc = "Responded"
  /\ request.Body.readErr
  /\ request.ContentType = "text/plain"
  /\ writer.statuses = <<StatusBadRequest>>

\* C10 as stated: the patch is the sidecar append followed by one annotation
\* operation (add of the whole mapping when the Pod has none or its inject
\* annotation is empty, replace at the inject key otherwise); applying it
\* makes the container list one longer and, in the replace branch, leaves
\* every other annotation as it was.
C10_PatchShapeAndEffect ==
  PatchEmitted
    => LET ops == admissionResponse.Patch
           before == UnmarshalPod(ar.Request.Object).pod
           r == ApplyPatch(ar.Request.Object, ops)
           after == UnmarshalPod(r.doc).pod
           addBranch == before.Annotations.isNil
                          \/ Get(before.Annotations, injectKey) = sEmpty
       IN /\ Len(ops) = 2
          /\ ops[1].Op = "add"
          /\ ops[1].Path = AppendPath
          /\ ops[1].Value = JLit(getDefaultSidecar)
          /\ addBranch => /\ ops[2].Op = "add"
                          /\ ops[2].Path = AnnotationsPath
                          /\ ops[2].Value = MarshalMap(InjectedAnnotations)
          /\ ~addBranch => /\ ops[2].Op = "replace"
                           /\ ops[2].Value = JStr(sInjected)
          /\ r.ok
          /\ Len(ContainersOf(r.doc)) = Len(ContainersOf(ar.Request.Object)) + 1
          /\ ~addBranch =>
               /\ Get(after.Annotations, injectKey) = sInjected
               /\ \A k \in DOMAIN before.Annotations.m \ {injectKey} :
                    Get(after.Annotations, k) = Get(before.Annotations, k)

=============================================================================
